---- MODULE Spec2Model ----
(***************************************************************************)
(* Breadth / sector-rotation caching pipeline of industry-runners:         *)
(* the Redis cache store (api/shared/cache.py), the trading calendar       *)
(* (api/shared/market_calendar.py), the Pacific-time helpers               *)
(* (api/shared/timezone.py) and the endpoints that read and write the      *)
(* cache (breadth-daily, fix-breadth, fix-sector-nhnl, sector-rotation,    *)
(* breadth-history).                                                       *)
(*                                                                         *)
(* Time is counted in whole minutes since 1970-01-01 00:00 of the server's *)
(* clock; every TTL of the program is a whole number of minutes.  A date   *)
(* string 'YYYY-MM-DD' is the triple <<y, m, d>>; strftime and strptime    *)
(* are the conversions between minutes and triples.                        *)
(***************************************************************************)
EXTENDS Integers, Sequences, FiniteSets, TLC

\* ------------------------------------------------------------------------
\* datetime arithmetic (the Python library calls the source relies on)
\* ------------------------------------------------------------------------
MinutesPerDay == 1440

IsLeap(y) == (y % 4 = 0 /\ y % 100 # 0) \/ y % 400 = 0

DaysInMonth(y, m) ==
    IF m = 2 THEN (IF IsLeap(y) THEN 29 ELSE 28)
    ELSE IF m \in {4, 6, 9, 11} THEN 30 ELSE 31

\* proleptic Gregorian day number of a date, 1970-01-01 = 0: the day of
\* the year counted from 1 March (mp is the month from March), within the
\* 400-year era of the year
DaysFromEra(era, yoe, doy) ==
    era * 146097 + yoe * 365 + yoe \div 4 - yoe \div 100 + doy - 719468

DaysFromMarch(y, mp, d) ==
    DaysFromEra(y \div 400, y - (y \div 400) * 400, (153 * mp + 2) \div 5 + d - 1)

DaysFromCivil(dt) ==
    DaysFromMarch(IF dt[2] <= 2 THEN dt[1] - 1 ELSE dt[1],
                  IF dt[2] > 2 THEN dt[2] - 3 ELSE dt[2] + 9,
                  dt[3])

\* the date of a day number: the inverse of DaysFromCivil
CivilFromMonth(y, m, d) == <<IF m <= 2 THEN y + 1 ELSE y, m, d>>

CivilFromMp(era, yoe, doy, mp) ==
    CivilFromMonth(yoe + era * 400,
                   IF mp < 10 THEN mp + 3 ELSE mp - 9,
                   doy - (153 * mp + 2) \div 5 + 1)

CivilFromYoe(era, doe, yoe) ==
    CivilFromMp(era, yoe,
                doe - (365 * yoe + yoe \div 4 - yoe \div 100),
                (5 * (doe - (365 * yoe + yoe \div 4 - yoe \div 100)) + 2) \div 153)

CivilFromEra(era, doe) ==
    CivilFromYoe(era, doe,
                 (doe - doe \div 1460 + doe \div 36524 - doe \div 146096) \div 365)

CivilFromDays(n) ==
    CivilFromEra((n + 719468) \div 146097,
                 (n + 719468) - ((n + 719468) \div 146097) * 146097)

\* date.weekday(): Monday = 0 ... Sunday = 6
Weekday(dt) == (DaysFromCivil(dt) + 3) % 7

\* datetime.strftime('%Y-%m-%d') of a time in minutes
Strftime(t) == CivilFromDays(t \div MinutesPerDay)

\* datetime.strptime(date, '%Y-%m-%d').timestamp(), in minutes
DateTimestamp(dt) == DaysFromCivil(dt) * MinutesPerDay

\* a date that does not exist: date(...) and date.replace raise ValueError
ValueError == <<0, 0, 0>>

WellFormed(dt) ==
    /\ dt[2] \in 1..12
    /\ dt[3] >= 1
    /\ dt[3] <= DaysInMonth(dt[1], dt[2])

\* d.replace(day=n)
ReplaceDay(dt, n) ==
    IF dt = ValueError THEN ValueError
    ELSE IF n >= 1 /\ n <= DaysInMonth(dt[1], dt[2]) THEN <<dt[1], dt[2], n>>
    ELSE ValueError

\* ------------------------------------------------------------------------
\* api/shared/market_calendar.py
\* ------------------------------------------------------------------------
RECURSIVE StepToWeekday(_, _, _)
\* while d.weekday() != wd: d = d.replace(day=d.day + step)
StepToWeekday(dt, wd, step) ==
    IF dt = ValueError THEN ValueError
    ELSE IF Weekday(dt) = wd THEN dt
    ELSE StepToWeekday(ReplaceDay(dt, dt[3] + step), wd, step)

AddDays(dt, k) == IF dt = ValueError THEN ValueError ELSE ReplaceDay(dt, dt[3] + k)

_mlk_day(year) == AddDays(StepToWeekday(<<year, 1, 1>>, 0, 1), 14)

_presidents_day(year) == AddDays(StepToWeekday(<<year, 2, 1>>, 0, 1), 14)

_memorial_day(year) == StepToWeekday(<<year, 5, 31>>, 0, -1)

_labor_day(year) == StepToWeekday(<<year, 9, 1>>, 0, 1)

_thanksgiving(year) == AddDays(StepToWeekday(<<year, 11, 1>>, 3, 1), 21)

_good_friday(year) ==
    LET a == year % 19
        b == year \div 100
        c == year % 100
        d == b \div 4
        e == b % 4
        f == (b + 8) \div 25
        g == (b - f + 1) \div 3
        h == (19 * a + b - d - g + 15) % 30
        i == c \div 4
        k == c % 4
        l == (32 + 2 * e + 2 * i - h - k) % 7
        m == (a + 11 * h + 22 * l) \div 451
        month == (h + l - 7 * m + 114) \div 31
        day   == ((h + l - 7 * m + 114) % 31) + 1
        easter == <<year, month, day>>
    IN  ReplaceDay(easter, easter[3] - 2)

\* a holiday kept on its own date
_observed_unshifted(dt) == dt

_observed(dt) ==
    IF Weekday(dt) = 5 THEN ReplaceDay(dt, dt[3] - 1)
    ELSE IF Weekday(dt) = 6 THEN ReplaceDay(dt, dt[3] + 1)
    ELSE dt

\* the set of holiday dates of a year; {ValueError} when building it raises
get_market_holidays(year) ==
    LET hs == { _observed(<<year, 1, 1>>), _mlk_day(year), _presidents_day(year),
                _good_friday(year), _memorial_day(year),
                _observed(<<year, 6, 19>>), _observed(<<year, 7, 4>>),
                _labor_day(year), _thanksgiving(year),
                _observed(<<year, 12, 25>>) }
    IN  IF ValueError \in hs THEN {ValueError} ELSE hs

_SPECIAL_CLOSURES == { <<2025, 1, 9>> }

\* result of a call: exc = TRUE when it raises, ret its value otherwise
Ret(v) == [exc |-> FALSE, ret |-> v]
Raise == [exc |-> TRUE, ret |-> FALSE]

is_market_open(dt) ==
    IF ~WellFormed(dt) THEN Raise
    ELSE IF Weekday(dt) >= 5 THEN Ret(FALSE)
    ELSE IF dt \in _SPECIAL_CLOSURES THEN Ret(FALSE)
    ELSE IF get_market_holidays(dt[1]) = {ValueError} THEN Raise
    ELSE IF dt \in get_market_holidays(dt[1]) THEN Ret(FALSE)
    ELSE Ret(TRUE)

\* ------------------------------------------------------------------------
\* api/shared/timezone.py
\* ------------------------------------------------------------------------
PST_OFFSET_HOURS == -8
PDT_OFFSET_HOURS == -7

\* the first day on or after dt that is a Sunday, as a day number
FirstSundayFrom(dt) == DaysFromCivil(dt) + ((6 - Weekday(dt)) % 7)

is_dst(utc) ==
    LET year == Strftime(utc)[1]
        dst_start_utc == (FirstSundayFrom(<<year, 3, 1>>) + 7) * MinutesPerDay + 10 * 60
        dst_end_utc   == FirstSundayFrom(<<year, 11, 1>>) * MinutesPerDay + 9 * 60
    IN  dst_start_utc <= utc /\ utc < dst_end_utc

get_pst_offset(utc) == IF is_dst(utc) THEN PDT_OFFSET_HOURS ELSE PST_OFFSET_HOURS

now_pst(utc) == utc + get_pst_offset(utc) * 60

today_pst(utc) == Strftime(now_pst(utc))

\* ------------------------------------------------------------------------
\* bounds of the model
\* ------------------------------------------------------------------------
\* number of instants of the clock at which requests arrive
MaxClock == 2

\* largest number of Redis interactions of one request in which a failure
\* is injected
MaxCalls == 6

\* largest days argument tried, besides 10
MaxDays == 2

\* 2025-12-25 00:00, the first day of the modelled period, in minutes
Epoch0 == DateTimestamp(<<2025, 12, 25>>)

\* the instants the clock visits, as minutes after Epoch0: Christmas Day at
\* 10:00 and 10:30, then 29 days later (Friday 2026-01-23), 32 days later
\* (Monday 2026-01-26) and 61 days later
ClockOffsets ==
    << 600, 630, 29 * 1440 + 600, 32 * 1440 + 600, 61 * 1440 + 600 >>

NowAt(i) == Epoch0 + ClockOffsets[i]

\* date strings that requests pass (a Wednesday, Christmas, a Friday and a
\* Saturday)
ReqDates ==
    { <<2025, 12, 24>>, <<2025, 12, 25>>, <<2025, 12, 26>>, <<2025, 12, 27>> }

\* date strings that direct callers of the cache store pass: 30 days before
\* the first instant
ApiDates == { <<2025, 11, 25>> }

\* every date a history key can be written for
AllDates ==
    ReqDates \cup ApiDates \cup { Strftime(NowAt(i)) : i \in 1..Len(ClockOffsets) }

\* ------------------------------------------------------------------------
\* state
\* ------------------------------------------------------------------------
VARIABLES
    clock,        \* index of the current instant in ClockOffsets
    connStr,      \* REDIS_CONNECTION_STRING is configured
    apiKey,       \* POLYGON_API_KEY is configured
    redisClient,  \* _redis_client is not None
    cache,        \* Redis string keys written with SETEX: key -> entry
    histVal,      \* Redis keys {series}:history:{date}: JSON text or nil
    histIdx,      \* Redis sorted sets {series}:history:dates: <<member, score>>
    resp,         \* the last call or request and what it answered
    scope,        \* the family of callers this behaviour is about
    pc,           \* where each request in flight stands in its handler
    loc,          \* the local variables of each request in flight
    db            \* the PostgreSQL tables market_summaries and usage

vars == <<clock, connStr, apiKey, redisClient, cache, histVal, histIdx, resp,
          scope, pc, loc, db>>

now == NowAt(clock)

\* datetime.now().strftime('%Y-%m-%d'), today_pst() and now_pst() at each
\* instant, and the timestamp of each date string, computed once
StrftimeAt == [i \in 1..Len(ClockOffsets) |-> Strftime(NowAt(i))]
TodayPstAt == [i \in 1..Len(ClockOffsets) |-> today_pst(NowAt(i))]
NowPstAt == [i \in 1..Len(ClockOffsets) |-> now_pst(NowAt(i))]
TimestampOf == [d \in AllDates |-> DateTimestamp(d)]

CacheKeys ==
    { "breadth:daily", "sector-rotation:daily", "sector-rotation:weekly",
      "sector-rotation:nh-nl-history", "sector-rotation:15day-highlow",
      "market_summaries:latest" }

Series == { "breadth:daily", "breadth:realtime" }

\* ------------------------------------------------------------------------
\* api/shared/cache.py
\* ------------------------------------------------------------------------
\* times to live and retention, in minutes (the source states seconds)
CACHE_TTL_REALTIME == 5
CACHE_TTL_DAILY == 60
HISTORY_DAYS == 5
RETENTION_DAYS == 30

\* Python None / Redis nil, and a present value
None == <<>>
Some(v) == <<v>>

\* json.dumps and json.loads: the text of a value, and the value of a text
Dumps(v) == [json |-> v]
Loads(t) == t.json

\* truth value of a loaded JSON value (None and empty containers are false)
Truthy(v) == v # None /\ (DOMAIN v) # {}

\* The Redis interactions of one request are numbered in the order they are
\* made (connection attempts included); interaction number i fails, by
\* raising, when i is in the set F chosen by the environment.
Failed(s, F) == (Len(s.log) + 1) \in F

Call(s, name) == [s EXCEPT !.log = Append(@, name)]

\* the world a request starts in
World0 == [client |-> redisClient, cache |-> cache, hval |-> histVal,
           hidx |-> histIdx, log |-> <<>>, ttl |-> 0]

get_redis_client(s, F) ==
    IF s.client THEN [s |-> s, client |-> TRUE]
    ELSE IF ~connStr THEN [s |-> s, client |-> FALSE]
    ELSE IF Failed(s, F) THEN [s |-> Call(s, "connect"), client |-> FALSE]
    ELSE [s |-> [Call(s, "connect") EXCEPT !.client = TRUE], client |-> TRUE]

get_cached(s, F, key) ==
    LET c == get_redis_client(s, F) IN
    IF ~c.client THEN [s |-> c.s, r |-> None]
    ELSE IF Failed(c.s, F) THEN [s |-> Call(c.s, "get"), r |-> None]
    ELSE LET data == c.s.cache[key] IN
         [s |-> Call(c.s, "get"),
          r |-> IF data # None THEN Some(Loads(data.text)) ELSE None]

\* set_cached answering True whenever a client exists, whatever SETEX did
set_cached_optimistic(s, F, key, data, ttl) ==
    LET c == get_redis_client(s, F) IN
    IF ~c.client THEN [s |-> c.s, r |-> FALSE]
    ELSE IF Failed(c.s, F) \/ ttl <= 0 THEN [s |-> Call(c.s, "setex"), r |-> TRUE]
    ELSE [s |-> [Call(c.s, "setex") EXCEPT
                   !.cache[key] = [text |-> Dumps(data), exp |-> now + ttl],
                   !.ttl = ttl],
          r |-> TRUE]

set_cached(s, F, key, data, ttl) ==
    LET c == get_redis_client(s, F) IN
    IF ~c.client THEN [s |-> c.s, r |-> FALSE]
    ELSE IF Failed(c.s, F) \/ ttl <= 0 THEN [s |-> Call(c.s, "setex"), r |-> FALSE]
    ELSE [s |-> [Call(c.s, "setex") EXCEPT
                   !.cache[key] = [text |-> Dumps(data), exp |-> now + ttl],
                   !.ttl = ttl],
          r |-> TRUE]

\* ZADD: add the member or update its score
ZAdd(zset, member, score) ==
    { e \in zset : e[1] # member } \cup { <<member, score>> }

\* a prune that removes nothing
ZRemRangeByScore_nothing(zset, max) == zset

\* ZREMRANGEBYSCORE key -inf max
ZRemRangeByScore(zset, max) == { e \in zset : e[2] > max }

\* save_daily_snapshot without the ZADD of the date
save_daily_snapshot_unindexed(s, F, key_prefix, data, dateArg) ==
    LET c  == get_redis_client(s, F)
        date == IF dateArg = None THEN StrftimeAt[clock] ELSE dateArg[1]
        s1 == [Call(c.s, "set") EXCEPT !.hval[key_prefix][date] = Dumps(data)]
        cutoff == now - RETENTION_DAYS * MinutesPerDay
        s3 == [Call(s1, "zremrangebyscore") EXCEPT
                 !.hidx[key_prefix] = ZRemRangeByScore(@, cutoff)]
    IN  IF ~c.client THEN [s |-> c.s, r |-> FALSE]
        ELSE IF Failed(c.s, F) THEN [s |-> Call(c.s, "set"), r |-> FALSE]
        ELSE IF ~WellFormed(date) THEN [s |-> s1, r |-> FALSE]
        ELSE IF Failed(s1, F) THEN [s |-> Call(s1, "zremrangebyscore"), r |-> FALSE]
        ELSE [s |-> s3, r |-> TRUE]

save_daily_snapshot(s, F, key_prefix, data, dateArg) ==
    LET c  == get_redis_client(s, F)
        date == IF dateArg = None THEN StrftimeAt[clock] ELSE dateArg[1]
        s1 == [Call(c.s, "set") EXCEPT !.hval[key_prefix][date] = Dumps(data)]
        s2 == [Call(s1, "zadd") EXCEPT
                 !.hidx[key_prefix] = ZAdd(@, date, TimestampOf[date])]
        cutoff == now - RETENTION_DAYS * MinutesPerDay
        s3 == [Call(s2, "zremrangebyscore") EXCEPT
                 !.hidx[key_prefix] = ZRemRangeByScore(@, cutoff)]
    IN  IF ~c.client THEN [s |-> c.s, r |-> FALSE]
        ELSE IF Failed(c.s, F) THEN [s |-> Call(c.s, "set"), r |-> FALSE]
        ELSE IF ~WellFormed(date) THEN [s |-> s1, r |-> FALSE]
        ELSE IF Failed(s1, F) THEN [s |-> Call(s1, "zadd"), r |-> FALSE]
        ELSE IF Failed(s2, F) THEN [s |-> Call(s2, "zremrangebyscore"), r |-> FALSE]
        ELSE [s |-> s3, r |-> TRUE]

\* the members of a sorted set, lowest score first (ZRANGE for ZREVRANGE)
RECURSIVE ZOrder(_)
ZOrder(zset) ==
    IF zset = {} THEN <<>>
    ELSE LET low == CHOOSE e \in zset : \A o \in zset : o[2] >= e[2]
         IN  <<low[1]>> \o ZOrder(zset \ {low})

\* the members of a sorted set, highest score first
RECURSIVE ZRevOrder(_)
ZRevOrder(zset) ==
    IF zset = {} THEN <<>>
    ELSE LET top == CHOOSE e \in zset : \A o \in zset : o[2] <= e[2]
         IN  <<top[1]>> \o ZRevOrder(zset \ {top})

\* ZREVRANGE key 0 stop: a negative stop counts from the end of the list
ZRevRange(zset, stop) ==
    LET all  == ZRevOrder(zset)
        n    == Len(all)
        last == IF stop < 0 THEN n + stop ELSE stop
        hi   == IF last >= n THEN n ELSE last + 1
    IN  IF hi <= 0 THEN <<>> ELSE SubSeq(all, 1, hi)

\* the loop of get_history over the dates: one GET per date
RECURSIVE HistoryLoop(_, _, _, _, _)
HistoryLoop(s, F, key_prefix, dates, history) ==
    IF dates = <<>> THEN [s |-> s, exc |-> FALSE, r |-> history]
    ELSE IF Failed(s, F) THEN [s |-> Call(s, "get"), exc |-> TRUE, r |-> <<>>]
    ELSE LET date == Head(dates)
             data == s.hval[key_prefix][date]
         IN  HistoryLoop(Call(s, "get"), F, key_prefix, Tail(dates),
                 IF data # None
                 THEN Append(history, [date |-> date, data |-> Loads(data)])
                 ELSE history)

get_history(s, F, key_prefix, days) ==
    LET c == get_redis_client(s, F) IN
    IF ~c.client THEN [s |-> c.s, r |-> <<>>]
    ELSE IF Failed(c.s, F) THEN [s |-> Call(c.s, "zrevrange"), r |-> <<>>]
    ELSE LET dates == ZRevRange(c.s.hidx[key_prefix], days - 1)
             loop  == HistoryLoop(Call(c.s, "zrevrange"), F, key_prefix, dates, <<>>)
         IN  [s |-> loop.s, r |-> IF loop.exc THEN <<>> ELSE loop.r]

\* should_save_daily_snapshot answering exists() instead of not exists()
should_save_daily_snapshot_inverted(s, F, key_prefix) ==
    LET c == get_redis_client(s, F)
        today == StrftimeAt[clock]
    IN  IF ~c.client THEN [s |-> c.s, r |-> FALSE]
        ELSE IF Failed(c.s, F) THEN [s |-> Call(c.s, "exists"), r |-> FALSE]
        ELSE [s |-> Call(c.s, "exists"), r |-> c.s.hval[key_prefix][today] # None]

should_save_daily_snapshot(s, F, key_prefix) ==
    LET c == get_redis_client(s, F)
        today == StrftimeAt[clock]
    IN  IF ~c.client THEN [s |-> c.s, r |-> FALSE]
        ELSE IF Failed(c.s, F) THEN [s |-> Call(c.s, "exists"), r |-> FALSE]
        ELSE [s |-> Call(c.s, "exists"), r |-> c.s.hval[key_prefix][today] = None]

\* ------------------------------------------------------------------------
\* initial state and the passing of time
\* ------------------------------------------------------------------------
\* The arguments of a call or the parameters of a request: a key, series,
\* timeframe or action name, a flag, a date or days parameter, a number and
\* a value; and what it answered: the boolean or the list a cache-store call
\* returns, or the status and body of an HTTP response.  cacheUsed tells
\* whether the request made a call on the cache store's backend, and ttl is
\* the time to live of the last SETEX it made that took effect (0: none).
NoData == [n |-> 0]
NoBody == [none |-> TRUE]
Args(name, flag, param, n, data) ==
    [name |-> name, flag |-> flag, param |-> param, n |-> n, data |-> data]
Bool(b) == [flag |-> b, list |-> <<>>, status |-> 0, body |-> NoBody]
List(l) == [flag |-> FALSE, list |-> l, status |-> 0, body |-> NoBody]
Http(status, body) == [flag |-> FALSE, list |-> <<>>, status |-> status, body |-> body]

NoResp == [op |-> "none", args |-> Args("", FALSE, None, 0, NoData),
           r |-> Bool(FALSE), degraded |-> FALSE, fetched |-> FALSE, at |-> 0,
           cacheUsed |-> FALSE, ttl |-> 0]

\* the largest number of requests in flight at once
MaxProcs == 2

Procs == 1..MaxProcs

\* the local variables of a request: its method, the date it is about, a
\* flag, a count, the data it holds and what it has answered
NoLocals == [op |-> "", date |-> None, flag |-> FALSE, n |-> 0,
             data |-> NoData, r |-> Http(0, NoBody)]

\* the date parameters of market-summary requests, besides none (today)
SummaryDates == { <<2025, 12, 24>> }

\* no request is in flight, and the tables are empty
NoRequests ==
    /\ pc = [p \in Procs |-> "idle"]
    /\ loc = [p \in Procs |-> NoLocals]
    /\ db = [summaries |-> {}, usage |-> <<>>]

\* The breadth endpoints, the sector endpoints and the direct callers of the
\* cache store use disjoint Redis keys, and the live breadth endpoint uses
\* none; a behaviour follows one of the four.
Scopes == { "api", "breadth", "sector", "live" }

Init ==
    /\ clock = 1
    /\ connStr \in BOOLEAN
    /\ apiKey \in BOOLEAN
    /\ redisClient = FALSE
    /\ cache = [k \in CacheKeys |-> None]
    /\ histVal = [sr \in Series |-> [d \in AllDates |-> None]]
    /\ histIdx = [sr \in Series |-> {}]
    /\ resp = NoResp
    /\ NoRequests
    /\ scope \in Scopes

\* Redis drops a SETEX key when its time to live has elapsed
Expire(c, t) ==
    [k \in CacheKeys |-> IF c[k] # None /\ c[k].exp <= t THEN None ELSE c[k]]

AdvanceTime ==
    /\ clock < MaxClock
    /\ clock < Len(ClockOffsets)
    /\ clock' = clock + 1
    /\ cache' = Expire(cache, NowAt(clock + 1))
    /\ UNCHANGED <<connStr, apiKey, redisClient, histVal, histIdx, resp, scope,
                   pc, loc, db>>

\* the number of Redis interactions a request made
Interactions(o) == Len(o.s.log)

\* The sets of failing interactions tried in a request that makes n
\* interactions when none fails: none, one transient failure (a request is
\* the failure-free one up to its first failure), or the backend down
\* throughout.
FailSets(n) ==
    {{}} \cup { {i} : i \in 1..(IF n < MaxCalls THEN n ELSE MaxCalls) }
         \cup { 1..MaxCalls }

\* what a request leaves behind: the Redis contents and the client singleton
Commit(s) ==
    /\ redisClient' = s.client
    /\ cache' = s.cache
    /\ histVal' = s.hval
    /\ histIdx' = s.hidx

\* some interaction of the request failed, or no client could be obtained
Degraded(s, F) == s.log = <<>> \/ \E i \in F : i <= Len(s.log)

\* an optional date parameter as it is recorded: the date, or None
Param(dateArg) == IF dateArg = None THEN None ELSE dateArg[1]

Answer(op, args, r, s, F, fetched) ==
    resp' = [op |-> op, args |-> args, r |-> r, degraded |-> Degraded(s, F),
             fetched |-> fetched, at |-> clock, cacheUsed |-> s.log # <<>>,
             ttl |-> s.ttl]

\* ------------------------------------------------------------------------
\* direct callers of the cache store
\* ------------------------------------------------------------------------
ApiValues == { [n |-> 0], [n |-> 1] }

DaysArgs == (0..MaxDays) \cup {10}


CallGetCached ==
    /\ scope = "api"
    /\ \E key \in {"breadth:daily"} :
      \E F \in FailSets(Interactions(
             get_cached(World0, {}, key))) :
      \E o \in { get_cached(World0, F, key) } :
      /\ Commit(o.s)
      /\ Answer("get_cached", Args(key, FALSE, None, 0, NoData), List(o.r), o.s, F, FALSE)
      /\ UNCHANGED <<clock, connStr, apiKey, scope, pc, loc, db>>

CallSetCached ==
    /\ scope = "api"
    /\ \E key \in {"breadth:daily"}, data \in {[n |-> 1]},
       ttl \in {0, CACHE_TTL_DAILY} :
      \E F \in FailSets(Interactions(
             set_cached(World0, {}, key, data, ttl))) :
      \E o \in { set_cached(World0, F, key, data, ttl) } :
      /\ Commit(o.s)
      /\ Answer("set_cached", Args(key, FALSE, None, ttl, data), Bool(o.r), o.s, F, FALSE)
      /\ UNCHANGED <<clock, connStr, apiKey, scope, pc, loc, db>>

CallSaveDailySnapshot ==
    /\ scope = "api"
    /\ \E sr \in {"breadth:daily"}, data \in ApiValues,
       dateArg \in {None} \cup { Some(d) : d \in ApiDates } :
      \E F \in FailSets(Interactions(
             save_daily_snapshot(World0, {}, sr, data, dateArg))) :
      \E o \in { save_daily_snapshot(World0, F, sr, data, dateArg) },
         date \in { IF dateArg = None THEN StrftimeAt[clock] ELSE dateArg[1] } :
      /\ Commit(o.s)
      /\ Answer("save_daily_snapshot", Args(sr, FALSE, date, 0, data), Bool(o.r),
                o.s, F, FALSE)
      /\ UNCHANGED <<clock, connStr, apiKey, scope, pc, loc, db>>

CallGetHistory ==
    /\ scope = "api"
    /\ \E sr \in Series, days \in DaysArgs :
      \E F \in FailSets(Interactions(
             get_history(World0, {}, sr, days))) :
      \E o \in { get_history(World0, F, sr, days) } :
      /\ Commit(o.s)
      /\ Answer("get_history", Args(sr, FALSE, None, days, NoData), List(o.r),
                o.s, F, FALSE)
      /\ UNCHANGED <<clock, connStr, apiKey, scope, pc, loc, db>>

CallShouldSave ==
    /\ scope = "api"
    /\ \E sr \in Series :
      \E F \in FailSets(Interactions(
             should_save_daily_snapshot(World0, {}, sr))) :
      \E o \in { should_save_daily_snapshot(World0, F, sr) } :
      /\ Commit(o.s)
      /\ Answer("should_save_daily_snapshot", Args(sr, FALSE, None, 0, NoData),
                Bool(o.r), o.s, F, FALSE)
      /\ UNCHANGED <<clock, connStr, apiKey, scope, pc, loc, db>>

\* ------------------------------------------------------------------------
\* the Finviz screener, as breadth-daily and fix-breadth see it
\* ------------------------------------------------------------------------
\* What the screener answers in one request: the universe count and the
\* count of each filter (fetch_finviz_count returns 0 on any error).  Four of
\* the twelve filters are carried; the other eight are copied into the
\* response in the same way.  The first outcome is an outage.
FinvizOutcomes ==
    { [universeCount |-> 0, new52WeekHigh |-> 0, new52WeekLow |-> 0,
       rsiAbove70 |-> 0, rsiBelow30 |-> 0],
      [universeCount |-> 5, new52WeekHigh |-> 3, new52WeekLow |-> 2,
       rsiAbove70 |-> 1, rsiBelow30 |-> 0] }

\* up / down in hundredths, the digits after the second dropped
Round2_floor(up, down) == (up * 100) \div down

\* round(up / down, 2) in hundredths, ties to even
Round2(up, down) ==
    LET q == (up * 100) \div down
        r == (up * 100) % down
    IN  IF 2 * r < down THEN q
        ELSE IF 2 * r > down THEN q + 1
        ELSE IF q % 2 = 0 THEN q ELSE q + 1

\* the ratio of two counts in hundredths: None is null, 9999 is 99.99
Ratio(up, down) ==
    IF down > 0 THEN Some(Round2(up, down))
    ELSE IF up > 0 THEN Some(9999)
    ELSE None

\* the response body both endpoints build; timestamps are in minutes
BreadthResponse(results, date, timestamp) ==
    [ date |-> date,
      timestamp |-> timestamp,
      universeCount |-> results.universeCount,
      cached |-> FALSE,
      highs |-> [ new52WeekHigh |-> results.new52WeekHigh,
                  new52WeekLow |-> results.new52WeekLow,
                  highLowRatio |-> Ratio(results.new52WeekHigh, results.new52WeekLow) ],
      rsi |-> [ above70 |-> results.rsiAbove70,
                below30 |-> results.rsiBelow30,
                rsiRatio |-> Ratio(results.rsiAbove70, results.rsiBelow30) ] ]

\* ------------------------------------------------------------------------
\* api/breadth-daily
\* ------------------------------------------------------------------------
CACHE_KEY == "breadth:daily"

\* breadth_daily_compute choosing the time to live by the state of the
\* market: the real-time one on a trading day, the daily one otherwise
breadth_daily_compute_by_market(s, F, results) ==
    LET response == BreadthResponse(results, StrftimeAt[clock], now)
        w  == set_cached(s, F, CACHE_KEY, response,
                         IF is_market_open(StrftimeAt[clock]) = Ret(TRUE)
                         THEN CACHE_TTL_REALTIME ELSE CACHE_TTL_DAILY)
        sh == should_save_daily_snapshot(w.s, F, "breadth:daily")
        sv == save_daily_snapshot(sh.s, F, "breadth:daily", response, None)
    IN  [s |-> IF sh.r THEN sv.s ELSE sh.s,
         r |-> Http(200, response),
         fetched |-> TRUE]

\* the part of main after a cache miss or with refresh=true
breadth_daily_compute(s, F, results) ==
    LET response == BreadthResponse(results, StrftimeAt[clock], now)
        w  == set_cached(s, F, CACHE_KEY, response, CACHE_TTL_DAILY)
        sh == should_save_daily_snapshot(w.s, F, "breadth:daily")
        sv == save_daily_snapshot(sh.s, F, "breadth:daily", response, None)
    IN  [s |-> IF sh.r THEN sv.s ELSE sh.s,
         r |-> Http(200, response),
         fetched |-> TRUE]

\* main taking the daily snapshot on the cache-hit path too
breadth_daily_main_snapshot_on_hit(s, F, bypass_cache, results) ==
    IF bypass_cache THEN breadth_daily_compute(s, F, results)
    ELSE LET g  == get_cached(s, F, CACHE_KEY)
             sh == should_save_daily_snapshot(g.s, F, "breadth:daily")
             sv == save_daily_snapshot(sh.s, F, "breadth:daily", g.r[1], None)
         IN  IF g.r # None /\ Truthy(g.r[1])
             THEN [s |-> IF sh.r THEN sv.s ELSE sh.s,
                   r |-> Http(200, [g.r[1] EXCEPT !.cached = TRUE]),
                   fetched |-> FALSE]
             ELSE breadth_daily_compute(g.s, F, results)

\* main stamping the cached body with the time of the request
breadth_daily_main_restamp(s, F, bypass_cache, results) ==
    IF bypass_cache THEN breadth_daily_compute(s, F, results)
    ELSE LET g == get_cached(s, F, CACHE_KEY) IN
         IF g.r # None /\ Truthy(g.r[1])
         THEN [s |-> g.s,
               r |-> Http(200, [g.r[1] EXCEPT !.cached = TRUE, !.timestamp = now]),
               fetched |-> FALSE]
         ELSE breadth_daily_compute(g.s, F, results)

breadth_daily_main(s, F, bypass_cache, results) ==
    IF bypass_cache THEN breadth_daily_compute(s, F, results)
    ELSE LET g == get_cached(s, F, CACHE_KEY) IN
         IF g.r # None /\ Truthy(g.r[1])
         THEN [s |-> g.s,
               r |-> Http(200, [g.r[1] EXCEPT !.cached = TRUE]),
               fetched |-> FALSE]
         ELSE breadth_daily_compute(g.s, F, results)

BreadthDaily ==
    /\ scope = "breadth"
    /\ \E refresh \in BOOLEAN, results \in FinvizOutcomes :
      \E F \in FailSets(Interactions(
             breadth_daily_main(World0, {}, refresh, results))) :
         \E o \in { breadth_daily_main(World0, F, refresh, results) } :
         /\ Commit(o.s)
         /\ Answer("breadth-daily", Args("", refresh, None, 0, NoData), o.r,
                   o.s, F, o.fetched)
         /\ UNCHANGED <<clock, connStr, apiKey, scope, pc, loc, db>>

\* ------------------------------------------------------------------------
\* api/fix-breadth
\* ------------------------------------------------------------------------
\* action=delete; dateArg is None when the date parameter is missing.
\* The Redis calls are made outside any try block: a failing call leaves
\* the function through an exception, which the host answers with 500.
fix_breadth_delete(s, F, dateArg) ==
    LET c  == get_redis_client(s, F)
        date == dateArg[1]
        s1 == [Call(c.s, "delete") EXCEPT !.hval["breadth:daily"][date] = None]
        deleted_key == c.s.hval["breadth:daily"][date] # None
        s2 == [Call(s1, "zrem") EXCEPT
                 !.hidx["breadth:daily"] = { e \in @ : e[1] # date }]
        deleted_date == \E e \in s1.hidx["breadth:daily"] : e[1] = date
    IN  IF dateArg = None
        THEN [s |-> s, r |-> Http(400, [error |-> "date parameter required"])]
        ELSE IF ~c.client
        THEN [s |-> c.s, r |-> Http(500, [error |-> "Redis not connected"])]
        ELSE IF Failed(c.s, F)
        THEN [s |-> Call(c.s, "delete"), r |-> Http(500, [error |-> "unhandled exception"])]
        ELSE IF Failed(s1, F)
        THEN [s |-> Call(s1, "zrem"), r |-> Http(500, [error |-> "unhandled exception"])]
        ELSE [s |-> s2,
              r |-> Http(200, [success |-> TRUE, action |-> "delete", date |-> date,
                               deleted_key |-> deleted_key,
                               deleted_from_set |-> deleted_date])]

\* action=refresh
fix_breadth_refresh(s, F, results) ==
    LET response == BreadthResponse(results, TodayPstAt[clock], NowPstAt[clock])
        w  == set_cached(s, F, "breadth:daily", response, CACHE_TTL_DAILY)
        sv == save_daily_snapshot(w.s, F, "breadth:daily", response, None)
    IN  [s |-> sv.s,
         r |-> Http(200, [success |-> TRUE, action |-> "refresh",
                          date |-> TodayPstAt[clock], data |-> response])]

\* the dates whose deletion is requested
DeleteDates == ApiDates \cup { <<2025, 12, 25>> }

FixBreadthDelete ==
    /\ scope \in {"breadth", "api"}
    /\ \E dateArg \in {None} \cup { Some(d) : d \in DeleteDates } :
      \E F \in FailSets(Interactions(
             fix_breadth_delete(World0, {}, dateArg))) :
         \E o \in { fix_breadth_delete(World0, F, dateArg) } :
         /\ Commit(o.s)
         /\ Answer("fix-breadth", Args("delete", FALSE, Param(dateArg), 0, NoData), o.r,
                   o.s, F, FALSE)
         /\ UNCHANGED <<clock, connStr, apiKey, scope, pc, loc, db>>

FixBreadthRefresh ==
    /\ scope = "breadth"
    /\ \E results \in FinvizOutcomes :
      \E F \in FailSets(Interactions(
             fix_breadth_refresh(World0, {}, results))) :
         \E o \in { fix_breadth_refresh(World0, F, results) } :
         /\ Commit(o.s)
         /\ Answer("fix-breadth", Args("refresh", FALSE, None, 0, NoData), o.r,
                   o.s, F, TRUE)
         /\ UNCHANGED <<clock, connStr, apiKey, scope, pc, loc, db>>

\* any other action: the usage text
FixBreadthUsage ==
    /\ scope = "breadth"
    /\ Answer("fix-breadth", Args("", FALSE, None, 0, NoData),
              Http(200, [usage |-> "refresh|delete"]), World0, {}, FALSE)
    /\ UNCHANGED <<clock, connStr, apiKey, redisClient, cache, histVal, histIdx,
                   scope, pc, loc, db>>

\* ------------------------------------------------------------------------
\* api/breadth-history
\* ------------------------------------------------------------------------
\* a days parameter that is not a number: int() raises ValueError
NotANumber == <<0, 0>>

\* main letting a failure of the history reads reach the except clause
breadth_history_main_raising(s, F, daysArg) ==
    IF daysArg = NotANumber
    THEN [s |-> s, r |-> Http(500, [error |-> "invalid literal for int()"])]
    ELSE LET n    == IF daysArg = None THEN HISTORY_DAYS ELSE daysArg[1]
             days == IF n < 30 THEN n ELSE 30
             rt   == get_history(s, F, "breadth:realtime", days)
             dl   == get_history(rt.s, F, "breadth:daily", days)
         IN  IF Degraded(dl.s, F)
             THEN [s |-> dl.s, r |-> Http(500, [error |-> "ConnectionError"])]
             ELSE [s |-> dl.s,
                   r |-> Http(200, [days |-> days, realtime |-> rt.r, daily |-> dl.r])]

\* daysArg is None when the parameter is missing; the ValueError of int() is
\* answered by the except clause
breadth_history_main(s, F, daysArg) ==
    IF daysArg = NotANumber
    THEN [s |-> s, r |-> Http(500, [error |-> "invalid literal for int()"])]
    ELSE LET n    == IF daysArg = None THEN HISTORY_DAYS ELSE daysArg[1]
             days == IF n < 30 THEN n ELSE 30
             rt   == get_history(s, F, "breadth:realtime", days)
             dl   == get_history(rt.s, F, "breadth:daily", days)
         IN  [s |-> dl.s,
              r |-> Http(200, [days |-> days, realtime |-> rt.r, daily |-> dl.r])]

BreadthHistory ==
    /\ scope = "breadth"
    /\ \E daysArg \in {None, NotANumber, Some(0), Some(MaxDays), Some(31)} :
      \E F \in FailSets(Interactions(
             breadth_history_main(World0, {}, daysArg))) :
         \E o \in { breadth_history_main(World0, F, daysArg) } :
         /\ Commit(o.s)
         /\ Answer("breadth-history", Args("", FALSE, daysArg, 0, NoData), o.r,
                   o.s, F, FALSE)
         /\ UNCHANGED <<clock, connStr, apiKey, scope, pc, loc, db>>

\* ------------------------------------------------------------------------
\* the Polygon market-data provider, as the sector endpoints see it
\* ------------------------------------------------------------------------
\* What the provider's answers add up to per sector in one request: nothing
\* usable (an outage: polygon_request returns {'_error': ...} and every
\* count stays 0), or new highs and lows in the first sector.
PolygonOutcomes == { "outage", "normal" }

SectorCounts(names, first, outcome) ==
    [ n \in names |-> IF outcome = "normal" /\ n = first
                      THEN [nh |-> 2, nl |-> 1] ELSE [nh |-> 0, nl |-> 0] ]

\* ------------------------------------------------------------------------
\* api/sector-rotation
\* ------------------------------------------------------------------------
CACHE_TTL_SECTOR == 5

RotationShortNames ==
    { "Tech", "Discr", "Health", "Fin", "Comm", "Energy", "Staple", "Util",
      "Matl", "RE", "Indus" }

sector_rotation_main(s, F, timeframeArg, refresh, outcome) ==
    LET timeframe == IF timeframeArg \in {"daily", "weekly"} THEN timeframeArg ELSE "daily"
        cache_key == IF timeframe = "daily" THEN "sector-rotation:daily"
                     ELSE "sector-rotation:weekly"
        g == IF refresh THEN [s |-> s, r |-> None] ELSE get_cached(s, F, cache_key)
        response_data ==
            [ timeframe |-> timeframe,
              timestamp |-> now,
              sectors |-> SectorCounts(RotationShortNames, "Tech", outcome),
              cached |-> FALSE ]
        w == set_cached(g.s, F, cache_key, response_data, CACHE_TTL_SECTOR)
    IN  IF g.r # None /\ Truthy(g.r[1])
        THEN [s |-> g.s, r |-> Http(200, [g.r[1] EXCEPT !.cached = TRUE]),
              fetched |-> FALSE]
        ELSE IF ~apiKey
        THEN [s |-> g.s, r |-> Http(500, [error |-> "Polygon API key not configured"]),
              fetched |-> FALSE]
        ELSE [s |-> w.s, r |-> Http(200, response_data), fetched |-> TRUE]

SectorRotation ==
    /\ scope = "sector"
    /\ \E timeframeArg \in {"daily", "weekly"}, refresh \in BOOLEAN,
          outcome \in PolygonOutcomes :
      \E F \in FailSets(Interactions(
             sector_rotation_main(World0, {}, timeframeArg, refresh, outcome))) :
         \E o \in { sector_rotation_main(World0, F, timeframeArg, refresh, outcome) } :
         /\ Commit(o.s)
         /\ Answer("sector-rotation", Args(timeframeArg, refresh, None, 0, NoData), o.r,
                   o.s, F, o.fetched)
         /\ UNCHANGED <<clock, connStr, apiKey, scope, pc, loc, db>>

\* ------------------------------------------------------------------------
\* api/fix-sector-nhnl
\* ------------------------------------------------------------------------
NhnlShortNames ==
    { "Tech", "Financials", "Health Care", "Discretionary", "Comm Services",
      "Industrials", "Staples", "Energy", "Utilities", "Materials", "Real Estate" }

HISTORY_KEY == "sector-rotation:nh-nl-history"
HISTORY_TTL == 43200
HISTORY_KEEP == 20

\* order of two date strings
DateLess(a, b) ==
    \/ a[1] < b[1]
    \/ a[1] = b[1] /\ a[2] < b[2]
    \/ a[1] = b[1] /\ a[2] = b[2] /\ a[3] < b[3]

\* sorted(days, key=lambda x: x['date'], reverse=True): a stable sort
RECURSIVE InsertDesc(_, _)
InsertDesc(sorted, d) ==
    IF sorted = <<>> THEN <<d>>
    ELSE IF DateLess(Head(sorted).date, d.date) THEN <<d>> \o sorted
    ELSE <<Head(sorted)>> \o InsertDesc(Tail(sorted), d)

RECURSIVE SortDesc(_)
SortDesc(days) ==
    IF days = <<>> THEN <<>>
    ELSE InsertDesc(SortDesc(SubSeq(days, 1, Len(days) - 1)), days[Len(days)])

\* a history that is sorted and never cut
Keep_all(days, n) == days

Keep(days, n) == IF Len(days) <= n THEN days ELSE SubSeq(days, 1, n)

\* the n trading days on or before the date dt, newest first
RECURSIVE TradingDaysBack(_, _)
TradingDaysBack(dt, n) ==
    IF n = 0 THEN <<>>
    ELSE IF is_market_open(dt) = Ret(TRUE)
    THEN <<dt>> \o TradingDaysBack(CivilFromDays(DaysFromCivil(dt) - 1), n - 1)
    ELSE TradingDaysBack(CivilFromDays(DaysFromCivil(dt) - 1), n)

\* Dates of histories that earlier recalculations have stored: the trading
\* days up to 2025-12-23, as many as the history keeps and one fewer, and
\* as many as it keeps up to 2026-01-30
StoredDates ==
    { <<>>,
      TradingDaysBack(<<2025, 12, 23>>, HISTORY_KEEP - 1),
      TradingDaysBack(<<2025, 12, 23>>, HISTORY_KEEP),
      TradingDaysBack(<<2026, 1, 30>>, HISTORY_KEEP) }

\* is_trading_day(date_str) for the date strings that occur: the dates of
\* the requests and every date from 2025-11-17 to 2026-01-31, which
\* covers the stored histories
is_trading_day ==
    [ d \in AllDates \cup
             { CivilFromDays(n) :
                 n \in DaysFromCivil(<<2025, 11, 17>>)..DaysFromCivil(<<2026, 1, 31>>) }
        |-> is_market_open(d) ]

\* history['days'] with target_date's entry replaced, or appended
UpdateOrAppend(days, day_data) ==
    IF \E i \in 1..Len(days) : days[i].date = day_data.date
    THEN LET existing_idx == CHOOSE i \in 1..Len(days) :
                 /\ days[i].date = day_data.date
                 /\ \A j \in 1..(i - 1) : days[j].date # day_data.date
         IN  [days EXCEPT ![existing_idx] = day_data]
    ELSE Append(days, day_data)

\* get_cached(history_key) or {'days': []}
HistoryOrEmpty(r) == IF r # None /\ Truthy(r[1]) THEN r[1] ELSE [days |-> <<>>]

\* the recalculation of one date; dateArg is None without a date parameter
fix_sector_nhnl_main(s, F, dateArg, outcome) ==
    LET target_date == IF dateArg = None THEN TodayPstAt[clock] ELSE dateArg[1]
        open == is_trading_day[target_date]
        c15  == set_cached(s, F, "sector-rotation:15day-highlow", None, 0)
        sectors_result == SectorCounts(NhnlShortNames, "Tech", outcome)
        g    == get_cached(c15.s, F, HISTORY_KEY)
        history == HistoryOrEmpty(g.r)
        day_data == [date |-> target_date, sectors |-> sectors_result]
        days == Keep(SortDesc(UpdateOrAppend(history.days, day_data)), HISTORY_KEEP)
        w    == set_cached(g.s, F, HISTORY_KEY, [history EXCEPT !.days = days], HISTORY_TTL)
    IN  IF open.exc
        THEN [s |-> s, r |-> Http(500, [error |-> "ValueError"]), fetched |-> FALSE]
        ELSE IF ~open.ret
        THEN [s |-> s, r |-> Http(400, [error |-> "not a trading day"]), fetched |-> FALSE]
        ELSE IF ~apiKey
        THEN [s |-> s, r |-> Http(500, [error |-> "Polygon API key not configured"]),
              fetched |-> FALSE]
        ELSE [s |-> w.s,
              r |-> Http(200, [success |-> TRUE, date |-> target_date,
                               sectors |-> sectors_result]),
              fetched |-> TRUE]

\* the entries of days whose date is a trading day, in order
RECURSIVE KeptDays(_)
KeptDays(days) ==
    IF days = <<>> THEN <<>>
    ELSE IF is_trading_day[Head(days).date].ret
         THEN <<Head(days)>> \o KeptDays(Tail(days))
         ELSE KeptDays(Tail(days))

\* action=cleanup_holidays
cleanup_holidays(s, F) ==
    LET g == get_cached(s, F, HISTORY_KEY)
        history == HistoryOrEmpty(g.r)
        kept == KeptDays(history.days)
        w == set_cached(g.s, F, HISTORY_KEY, [history EXCEPT !.days = kept], HISTORY_TTL)
    IN  IF \E i \in 1..Len(history.days) : is_trading_day[history.days[i].date].exc
        THEN [s |-> g.s, r |-> Http(500, [error |-> "ValueError"])]
        ELSE [s |-> w.s,
              r |-> Http(200, [success |-> TRUE, action |-> "cleanup_holidays",
                               before_count |-> Len(history.days),
                               after_count |-> Len(kept)])]

FixSectorNhnl ==
    /\ scope = "sector"
    /\ \E dateArg \in {None} \cup { Some(d) : d \in ReqDates },
          outcome \in PolygonOutcomes :
      \E F \in FailSets(Interactions(
             fix_sector_nhnl_main(World0, {}, dateArg, outcome))) :
         \E o \in { fix_sector_nhnl_main(World0, F, dateArg, outcome) } :
         /\ Commit(o.s)
         /\ Answer("fix-sector-nhnl", Args("", FALSE, Param(dateArg), 0, NoData), o.r,
                   o.s, F, o.fetched)
         /\ UNCHANGED <<clock, connStr, apiKey, scope, pc, loc, db>>

CleanupHolidays ==
    /\ scope = "sector"
    /\ \E F \in FailSets(Interactions(cleanup_holidays(World0, {}))) :
         \E o \in { cleanup_holidays(World0, F) } :
         /\ Commit(o.s)
         /\ Answer("fix-sector-nhnl", Args("cleanup_holidays", FALSE, None, 0, NoData),
                   o.r, o.s, F, FALSE)
         /\ UNCHANGED <<clock, connStr, apiKey, scope, pc, loc, db>>

\* ------------------------------------------------------------------------
\* api/fix-sector-nhnl on a history that earlier recalculations have filled
\* ------------------------------------------------------------------------
\* the history that recalculations of the given dates leave, newest first
StoredHistory(dates) ==
    [days |-> [i \in 1..Len(dates) |->
                 [date |-> dates[i],
                  sectors |-> SectorCounts(NhnlShortNames, "Tech", "normal")]]]

InitHist ==
    /\ clock = 1
    /\ connStr = TRUE
    /\ apiKey = TRUE
    /\ redisClient = FALSE
    /\ \E dates \in StoredDates :
         cache = [k \in CacheKeys |->
                    IF k = HISTORY_KEY /\ dates # <<>>
                    THEN [text |-> Dumps(StoredHistory(dates)),
                          exp |-> NowAt(1) + HISTORY_TTL]
                    ELSE None]
    /\ histVal = [sr \in Series |-> [d \in AllDates |-> None]]
    /\ histIdx = [sr \in Series |-> {}]
    /\ resp = NoResp
    /\ NoRequests
    /\ scope = "sector"

NextHist == FixSectorNhnl \/ CleanupHolidays

SpecHist == InitHist /\ [][NextHist]_vars

NextApi ==
    \/ CallGetCached
    \/ CallSetCached
    \/ CallSaveDailySnapshot
    \/ CallGetHistory
    \/ CallShouldSave
    \/ FixBreadthDelete
    \/ AdvanceTime

SpecApi == Init /\ [][NextApi]_vars


\* ------------------------------------------------------------------------
\* computations applied to given inputs: one call per behaviour
\* ------------------------------------------------------------------------
\* The inputs of the computations below are drawn from bounded sets; the
\* store is not involved.
MaxCount == 9

InitCalc ==
    /\ clock = 1
    /\ connStr = FALSE
    /\ apiKey = TRUE
    /\ redisClient = FALSE
    /\ cache = [k \in CacheKeys |-> None]
    /\ histVal = [sr \in Series |-> [d \in AllDates |-> None]]
    /\ histIdx = [sr \in Series |-> {}]
    /\ resp = NoResp
    /\ NoRequests
    /\ scope = "calc"

\* a computed value that is a record
Value(v) == Http(0, v)

\* no computation has been made yet
Idle == scope = "calc" /\ resp = NoResp

\* the call op(args) returned r
Returns(op, args, r) ==
    /\ resp' = [op |-> op, args |-> args, r |-> r, degraded |-> FALSE,
                fetched |-> FALSE, at |-> clock, cacheUsed |-> FALSE, ttl |-> 0]
    /\ UNCHANGED <<clock, connStr, apiKey, redisClient, cache, histVal,
                   histIdx, scope, pc, loc, db>>

\* the ratios of api/breadth-daily and api/fix-breadth for given counts
CallBreadthResponse ==
    /\ Idle
    /\ \E high \in 0..MaxCount, low \in 0..MaxCount :
       Returns("BreadthResponse", Args("", FALSE, <<high, low>>, 0, NoData),
               Value(BreadthResponse(
                   [universeCount |-> MaxCount, new52WeekHigh |-> high,
                    new52WeekLow |-> low, rsiAbove70 |-> low,
                    rsiBelow30 |-> high], StrftimeAt[clock], now)))

\* ------------------------------------------------------------------------
\* api/breadth: rolling ratios
\* ------------------------------------------------------------------------
\* What the provider has for the twelve trading dates of a request: bits[i+1]
\* is 1 when get_grouped_daily(dates[i]) is not empty (a holiday, an outage
\* or a provider error leave it empty), and movers[i] is what
\* calculate_daily_movers counts between dates[i] and dates[i+1].
DayBits == [1..11 -> {0, 1}]

MoversProfiles ==
    { [name |-> "flat",  day |-> [i \in 0..9 |-> [up |-> 0, down |-> 0]]],
      [name |-> "rally", day |-> [i \in 0..9 |-> [up |-> (i % 3) + 1, down |-> 0]]],
      [name |-> "mixed", day |-> [i \in 0..9 |-> [up |-> i % 3, down |-> (i % 2) + 1]]] }

RECURSIVE daily_counts_from(_, _, _)
daily_counts_from(i, bits, movers) ==
    IF i >= 10 THEN <<>>
    ELSE IF bits[i + 1] = 1 /\ bits[i + 2] = 1
         THEN <<movers[i]>> \o daily_counts_from(i + 1, bits, movers)
         ELSE daily_counts_from(i + 1, bits, movers)

RECURSIVE SumUp(_, _)
SumUp(counts, n) == IF n = 0 THEN 0 ELSE counts[n].up + SumUp(counts, n - 1)

RECURSIVE SumDown(_, _)
SumDown(counts, n) == IF n = 0 THEN 0 ELSE counts[n].down + SumDown(counts, n - 1)

calculate_rolling_ratios_any_window(bits, movers) ==
    LET daily_counts == daily_counts_from(0, bits, movers)
        n5  == IF Len(daily_counts) < 5 THEN Len(daily_counts) ELSE 5
        n10 == IF Len(daily_counts) < 10 THEN Len(daily_counts) ELSE 10
    IN  << Ratio(SumUp(daily_counts, n5), SumDown(daily_counts, n5)),
           Ratio(SumUp(daily_counts, n10), SumDown(daily_counts, n10)) >>

calculate_rolling_ratios(bits, movers) ==
    LET daily_counts == daily_counts_from(0, bits, movers)
        total_up_5    == SumUp(daily_counts, 5)
        total_down_5  == SumDown(daily_counts, 5)
        total_up_10   == SumUp(daily_counts, 10)
        total_down_10 == SumDown(daily_counts, 10)
        ratio_5day  == IF Len(daily_counts) >= 5
                       THEN IF total_down_5 > 0 THEN Some(Round2(total_up_5, total_down_5))
                            ELSE IF total_up_5 > 0 THEN Some(9999)
                            ELSE None
                       ELSE None
        ratio_10day == IF Len(daily_counts) >= 10
                       THEN IF total_down_10 > 0 THEN Some(Round2(total_up_10, total_down_10))
                            ELSE IF total_up_10 > 0 THEN Some(9999)
                            ELSE None
                       ELSE None
    IN  <<ratio_5day, ratio_10day>>

CallRollingRatios ==
    /\ Idle
    /\ \E bits \in DayBits, profile \in MoversProfiles :
       Returns("calculate_rolling_ratios",
               Args(profile.name, FALSE, bits, 0, NoData),
               List(calculate_rolling_ratios(bits, profile.day)))

\* ------------------------------------------------------------------------
\* api/shared/market_calendar.py applied to given dates
\* ------------------------------------------------------------------------
\* the years whose dates are tried: 2025-2027, a leap year, and two years in
\* which building the holiday set raises (2028: New Year's Day is a
\* Saturday; 2029: Easter is on April 1)
CalendarYears == (2025..2027) \cup {2024, 2028, 2029}

CalendarDates ==
    { dt \in CalendarYears \X (1..12) \X (1..31) : WellFormed(dt) }

get_closure_reason_no_special(dt) ==
    IF ~WellFormed(dt) THEN Raise
    ELSE IF Weekday(dt) = 5 THEN Ret("Saturday")
    ELSE IF Weekday(dt) = 6 THEN Ret("Sunday")
    ELSE IF get_market_holidays(dt[1]) = {ValueError} THEN Raise
    ELSE IF dt \in get_market_holidays(dt[1]) THEN Ret("US stock market holiday")
    ELSE Ret("")

get_closure_reason(dt) ==
    IF ~WellFormed(dt) THEN Raise
    ELSE IF Weekday(dt) = 5 THEN Ret("Saturday")
    ELSE IF Weekday(dt) = 6 THEN Ret("Sunday")
    ELSE IF dt \in _SPECIAL_CLOSURES THEN Ret("Special market closure")
    ELSE IF get_market_holidays(dt[1]) = {ValueError} THEN Raise
    ELSE IF dt \in get_market_holidays(dt[1]) THEN Ret("US stock market holiday")
    ELSE Ret("")

\* a call that raised the named exception
Raises(name) == List(<<name>>)

CallIsMarketOpen ==
    /\ Idle
    /\ \E dt \in CalendarDates :
         \E o \in { is_market_open(dt) } :
            Returns("is_market_open", Args("", FALSE, dt, 0, NoData),
                    IF o.exc THEN Raises("ValueError") ELSE Bool(o.ret))

CallGetClosureReason ==
    /\ Idle
    /\ \E dt \in CalendarDates :
         \E o \in { get_closure_reason(dt) } :
            Returns("get_closure_reason", Args("", FALSE, dt, 0, NoData),
                    IF o.exc THEN Raises("ValueError")
                    ELSE Value([reason |-> o.ret]))

\* ------------------------------------------------------------------------
\* api/breadth and api/sector-rotation: snapshots fetched in batches
\* ------------------------------------------------------------------------
BREADTH_BATCH_SIZE == 100
SECTOR_BATCH_SIZE == 50

MaxSymbols == 5
MaxBatch == 3

\* The provider as one request sees it: the calls in net.failing end in an
\* upstream failure of kind net.kind (a timeout, a status other than 200, a
\* body that is not JSON), or are answered with JSON whose "tickers" is null
\* (kind "shape"); the others are answered with 200 and the tickers
\* net.policy selects: every symbol asked for, only the odd-numbered ones, or
\* every symbol asked for and the symbols net.extra that were not.
FailureKinds == { "timeout", "http", "json" }
Policies == { "all", "odd", "extra" }

Net(failing, kind, policy, extra) ==
    [failing |-> failing, kind |-> kind, policy |-> policy, extra |-> extra]

Upstream(net, k, batch) ==
    LET asked == { batch[j] : j \in 1..Len(batch) }
    IN  IF k \in net.failing THEN [kind |-> net.kind, tickers |-> {}]
        ELSE [kind |-> "ok",
              tickers |-> IF net.policy = "all" THEN asked
                          ELSE IF net.policy = "odd" THEN { t \in asked : t % 2 = 1 }
                          ELSE asked \cup net.extra]

\* urlopen or json.loads raising, not caught
polygon_request_uncaught(answer) ==
    IF answer.kind = "ok"
    THEN [exc |-> FALSE, error |-> FALSE, null |-> FALSE, tickers |-> answer.tickers]
    ELSE IF answer.kind = "shape"
    THEN [exc |-> FALSE, error |-> FALSE, null |-> TRUE, tickers |-> {}]
    ELSE [exc |-> TRUE, error |-> TRUE, null |-> FALSE, tickers |-> {}]

\* the parsed body, or {'_error': ...} when urlopen or json.loads raises
polygon_request(answer) ==
    IF answer.kind = "ok"
    THEN [exc |-> FALSE, error |-> FALSE, null |-> FALSE, tickers |-> answer.tickers]
    ELSE IF answer.kind = "shape"
    THEN [exc |-> FALSE, error |-> FALSE, null |-> TRUE, tickers |-> {}]
    ELSE [exc |-> FALSE, error |-> TRUE, null |-> FALSE, tickers |-> {}]

Min(a, b) == IF a < b THEN a ELSE b

\* for i in range(0, len(symbols) - len(symbols) % batch_size, batch_size)
RECURSIVE batch_loop_full_only(_, _, _, _, _, _)
batch_loop_full_only(i, k, symbols, batch_size, net, acc) ==
    IF i + batch_size > Len(symbols) THEN acc
    ELSE LET batch == SubSeq(symbols, i + 1, i + batch_size)
             data  == polygon_request(Upstream(net, k, batch))
             sent  == Append(acc.requests, batch)
         IN  IF data.exc \/ data.null THEN [acc EXCEPT !.exc = TRUE, !.requests = sent]
             ELSE batch_loop_full_only(i + batch_size, k + 1, symbols, batch_size, net,
                     [acc EXCEPT !.requests = sent,
                                 !.snapshots = IF data.error THEN @ ELSE @ \cup data.tickers])

\* for i in range(i, len(symbols), batch_size), the k-th call being next:
\* the batches requested and the snapshots merged; iterating over a
\* "tickers" that is null raises TypeError
RECURSIVE batch_loop(_, _, _, _, _, _)
batch_loop(i, k, symbols, batch_size, net, acc) ==
    IF i >= Len(symbols) THEN acc
    ELSE LET batch == SubSeq(symbols, i + 1, Min(i + batch_size, Len(symbols)))
             data  == polygon_request(Upstream(net, k, batch))
             sent  == Append(acc.requests, batch)
         IN  IF data.exc \/ data.null THEN [acc EXCEPT !.exc = TRUE, !.requests = sent]
             ELSE batch_loop(i + batch_size, k + 1, symbols, batch_size, net,
                     [acc EXCEPT !.requests = sent,
                                 !.snapshots = IF data.error THEN @ ELSE @ \cup data.tickers])

\* the loop stopping before a last batch that is not full
fetch_current_snapshots_full_only(symbols, batch_size, net) ==
    batch_loop_full_only(0, 1, symbols, batch_size, net,
                         [exc |-> FALSE, requests |-> <<>>, snapshots |-> {}])

fetch_current_snapshots(symbols, batch_size, net) ==
    batch_loop(0, 1, symbols, batch_size, net,
               [exc |-> FALSE, requests |-> <<>>, snapshots |-> {}])

\* the symbols asked for: n of them, numbered from 1
Symbols(n) == [i \in 1..n |-> i]

\* the numbers of symbols and batch sizes tried: the small ones, and 120
\* symbols with the batch sizes of the two endpoints
FetchSizes ==
    ((0..MaxSymbols) \X (1..MaxBatch))
      \cup { <<120, SECTOR_BATCH_SIZE>>, <<120, BREADTH_BATCH_SIZE>> }

NoNet == Net({}, "none", "all", {})

CallFetchSnapshots ==
    /\ Idle
    /\ \E nb \in FetchSizes, policy \in Policies :
         \E failing \in SUBSET (1..Len(fetch_current_snapshots(
                                        Symbols(nb[1]), nb[2], NoNet).requests)) :
           \E kind \in (IF failing = {} THEN {"none"}
                        ELSE FailureKinds \cup {"shape"}) :
             \E o \in { fetch_current_snapshots(Symbols(nb[1]), nb[2],
                          Net(failing, kind, policy, {0})) } :
                Returns("fetch_current_snapshots",
                        Args(kind, FALSE, nb, 0,
                             [failing |-> failing, policy |-> policy]),
                        IF o.exc THEN Raises("TypeError")
                        ELSE Value([requests |-> o.requests,
                                    snapshots |-> o.snapshots]))

\* ------------------------------------------------------------------------
\* api/breadth: indicators
\* ------------------------------------------------------------------------
\* the universe, three symbols standing for the list of the source
BREADTH_UNIVERSE == <<"AAA", "BBB", "CCC">>

UniverseSet == { BREADTH_UNIVERSE[i] : i \in 1..Len(BREADTH_UNIVERSE) }

\* A ticker of a snapshot answer: lastTrade.p, day.c, min.c, prevDay.c and
\* todaysChangePerc, a missing field being 0.  Prices are whole numbers, for
\* which the float arithmetic of the source is exact at the thresholds.
Snap(p, c, minc, prev, chg) ==
    [p |-> p, c |-> c, minc |-> minc, prev |-> prev, chg |-> chg]

SnapKinds ==
    { Snap(105, 0, 0, 100, 5),     \* +5% by the provider
      Snap(94, 0, 0, 100, -6),     \* -6% by the provider
      Snap(101, 0, 0, 100, 1),     \* +1% by the provider
      Snap(104, 0, 0, 100, 0),     \* exactly +4%, computed from the prices
      Snap(0, 96, 0, 100, 0),      \* exactly -4%, priced by the day's close
      Snap(0, 0, 0, 100, 5) }      \* no current price

\* last_trade.get('p') or day.get('c') or snap.get('min', {}).get('c') or 0
current_price(snap) ==
    IF snap.p # 0 THEN snap.p
    ELSE IF snap.c # 0 THEN snap.c
    ELSE IF snap.minc # 0 THEN snap.minc
    ELSE 0

\* a percent change as the fraction num / den, den > 0
Pct(num, den) == [num |-> num, den |-> den]

\* ((current - base) / base) * 100
change_from(current, base) == Pct((current - base) * 100, base)

change_pct(snap) ==
    IF snap.chg = 0 /\ snap.prev > 0
    THEN change_from(current_price(snap), snap.prev)
    ELSE Pct(snap.chg, 1)

\* x > k
Above(x, k) == x.num > k * x.den

\* x >= k
AtLeast(x, k) == x.num >= k * x.den

\* x <= k
AtMost(x, k) == x.num <= k * x.den

NoCounts ==
    [ up_4_today |-> 0, down_4_today |-> 0,
      up_25_quarter |-> 0, down_25_quarter |-> 0,
      up_25_month |-> 0, down_25_month |-> 0,
      up_50_month |-> 0, down_50_month |-> 0,
      up_13_34days |-> 0, down_13_34days |-> 0,
      spy_value |-> 0 ]

\* if change >= k: up += 1 / elif change <= -k: down += 1
count_threshold(change, k, up, down, acc) ==
    IF AtLeast(change, k) THEN [acc EXCEPT ![up] = @ + 1]
    ELSE IF AtMost(change, -k) THEN [acc EXCEPT ![down] = @ + 1]
    ELSE acc

\* the same for the change since a historical price, when there is one
count_since(price, hist_price, k, up, down, acc) ==
    IF hist_price > 0
    THEN count_threshold(change_from(price, hist_price), k, up, down, acc)
    ELSE acc

\* the counters after a priced symbol other than SPY: daily movers, quarter,
\* month (25 and 50) and 34 days, in the order of the source
count_movers(price, chg, h63, h21, h34, acc) ==
    count_since(price, h34, 13, "up_13_34days", "down_13_34days",
      count_since(price, h21, 50, "up_50_month", "down_50_month",
        count_since(price, h21, 25, "up_25_month", "down_25_month",
          count_since(price, h63, 25, "up_25_quarter", "down_25_quarter",
            count_threshold(chg, 4, "up_4_today", "down_4_today", acc)))))

\* one pass of the loop body for a symbol
count_symbol(symbol, snap, hist, acc) ==
    IF current_price(snap) <= 0 THEN acc
    ELSE IF symbol = "SPY" THEN [acc EXCEPT !.spy_value = current_price(snap)]
    ELSE count_movers(current_price(snap), change_pct(snap), hist.h63[symbol],
                      hist.h21[symbol], hist.h34[symbol], acc)

\* for symbol, snap in snapshots.items()
RECURSIVE indicators_loop(_, _, _, _)
indicators_loop(todo, snapshots, hist, acc) ==
    IF todo = {} THEN acc
    ELSE LET symbol == CHOOSE s \in todo : TRUE
         IN  indicators_loop(todo \ {symbol}, snapshots, hist,
                             count_symbol(symbol, snapshots[symbol], hist, acc))

\* the dict returned, n holding the counters
indicators_of(n, ratio_5day, ratio_10day, t2108) ==
    [ primary |-> [ up4PlusToday |-> n.up_4_today,
                    down4PlusToday |-> n.down_4_today,
                    ratio5Day |-> ratio_5day,
                    ratio10Day |-> ratio_10day,
                    up25PlusQuarter |-> n.up_25_quarter,
                    down25PlusQuarter |-> n.down_25_quarter ],
      secondary |-> [ up25PlusMonth |-> n.up_25_month,
                      down25PlusMonth |-> n.down_25_month,
                      up50PlusMonth |-> n.up_50_month,
                      down50PlusMonth |-> n.down_50_month,
                      up13Plus34Days |-> n.up_13_34days,
                      down13Plus34Days |-> n.down_13_34days ],
      market |-> [ spyValue |-> n.spy_value ],
      t2108 |-> t2108 ]

calculate_breadth_indicators(snapshots, hist, ratio_5day, ratio_10day, t2108) ==
    indicators_of(indicators_loop(DOMAIN snapshots, snapshots, hist, NoCounts),
                  ratio_5day, ratio_10day, t2108)

\* every symbol the provider can name: the universe, SPY, and one symbol
\* that is in neither
AllSymbols == UniverseSet \cup {"SPY", "ZZZ"}

\* What get_historical_closes finds 21, 34 and 63 trading days back: nothing
\* (an outage), or every symbol at one price.
HistProfiles == { "none", "low", "high" }

HistOf(profile) ==
    LET price == IF profile = "low" THEN 80 ELSE IF profile = "high" THEN 200 ELSE 0
        h == [s \in AllSymbols |-> price]
    IN  [h21 |-> h, h34 |-> h, h63 |-> h]

CallBreadthIndicators ==
    /\ Idle
    /\ \E snapshots \in [UniverseSet \cup {"SPY"} -> SnapKinds],
          profile \in HistProfiles :
         Returns("calculate_breadth_indicators",
                 Args(profile, FALSE, None, 0, [snapshots |-> snapshots]),
                 Value(calculate_breadth_indicators(snapshots, HistOf(profile),
                                                    None, None, None)))

\* ------------------------------------------------------------------------
\* api/breadth: T2108
\* ------------------------------------------------------------------------
\* round(above / total * 100, 1) in tenths of a percent, ties to even
Round1(above, total) ==
    LET q == (above * 1000) \div total
        r == (above * 1000) % total
    IN  IF 2 * r < total THEN q
        ELSE IF 2 * r > total THEN q + 1
        ELSE IF q % 2 = 0 THEN q ELSE q + 1

RECURSIVE SumLast(_, _)
\* sum(history[-n:])
SumLast(history, n) ==
    IF n = 0 \/ history = <<>> THEN 0
    ELSE history[Len(history)] + SumLast(SubSeq(history, 1, Len(history) - 1), n - 1)

\* What get_grouped_daily_close has for the 40 dates: closes.days[s] of them
\* hold a close for symbol s, each equal to closes.level.
\* price_history[s], oldest first
price_history(closes, symbol) == [i \in 1..closes.days[symbol] |-> closes.level]

\* one pass of the second loop for a symbol that has a snapshot
t2108_symbol(symbol, snapshots, closes, acc) ==
    LET price   == current_price(snapshots[symbol])
        history == price_history(closes, symbol)
    IN  IF price <= 0 THEN acc
        ELSE IF Len(history) >= 40
        THEN [ total_valid |-> acc.total_valid + 1,
               above_ma_count |-> acc.above_ma_count +
                  (IF 40 * price > SumLast(history, 40) THEN 1 ELSE 0) ]
        ELSE acc

RECURSIVE t2108_loop(_, _, _, _, _)
\* for symbol in universe
t2108_loop(i, universe, snapshots, closes, acc) ==
    IF i > Len(universe) THEN acc
    ELSE t2108_loop(i + 1, universe, snapshots, closes,
                    IF universe[i] \notin DOMAIN snapshots THEN acc
                    ELSE t2108_symbol(universe[i], snapshots, closes, acc))

\* get_trading_dates(45) always returns 45 dates
calculate_t2108(snapshots, universe, closes) ==
    LET dates == 45
        n == t2108_loop(1, universe, snapshots, closes,
                        [total_valid |-> 0, above_ma_count |-> 0])
    IN  IF dates < 40 THEN None
        ELSE IF n.total_valid = 0 THEN None
        ELSE Some(Round1(n.above_ma_count, n.total_valid))

\* a priced ticker at 100 and an unpriced one
T2108Snaps == { Snap(100, 0, 0, 100, 0), Snap(0, 0, 0, 100, 5) }

CallT2108 ==
    /\ Idle
    /\ \E present \in SUBSET UniverseSet, level \in {90, 110},
          days \in [UniverseSet -> {0, 39, 40}] :
         \E snapshots \in [present -> T2108Snaps] :
            Returns("calculate_t2108",
                    Args("", FALSE, None, level,
                         [snapshots |-> snapshots, days |-> days]),
                    List(<<calculate_t2108(snapshots, BREADTH_UNIVERSE,
                                           [days |-> days, level |-> level])>>))

\* ------------------------------------------------------------------------
\* api/breadth-daily: fetch_finviz_count
\* ------------------------------------------------------------------------
\* What a screener page is to the four re.search calls: matches[i] is
\* group(1) of the leftmost match of pattern i, or None.  Every match of
\* pattern 1 contains one of pattern 2, and every match of pattern 2 one of
\* pattern 4; the leftmost matches need not be at the same place, so the
\* counts can differ.  no_results tells whether the page has one of the
\* phrases of an empty result.  Fetching the page can fail instead.
PageCounts == { None, Some(7), Some(9) }

FinvizPages ==
    { [fetched |-> TRUE, matches |-> ms, no_results |-> nr] :
        ms \in { x \in [1..4 -> PageCounts] :
                   /\ x[1] # None => x[2] # None
                   /\ x[2] # None => x[4] # None },
        nr \in BOOLEAN }
    \cup { [fetched |-> FALSE, matches |-> [i \in 1..4 |-> None],
            no_results |-> FALSE] }

\* the patterns tried from the last to the first
fetch_finviz_count_last_first(page) ==
    IF ~page.fetched THEN [count |-> 0, log |-> "error"]
    ELSE IF page.matches[4] # None THEN [count |-> page.matches[4][1], log |-> ""]
    ELSE IF page.matches[3] # None THEN [count |-> page.matches[3][1], log |-> ""]
    ELSE IF page.matches[2] # None THEN [count |-> page.matches[2][1], log |-> ""]
    ELSE IF page.matches[1] # None THEN [count |-> page.matches[1][1], log |-> ""]
    ELSE IF page.no_results THEN [count |-> 0, log |-> ""]
    ELSE [count |-> 0, log |-> "warning"]

\* the count returned and what is logged
fetch_finviz_count(page) ==
    IF ~page.fetched THEN [count |-> 0, log |-> "error"]
    ELSE IF page.matches[1] # None THEN [count |-> page.matches[1][1], log |-> ""]
    ELSE IF page.matches[2] # None THEN [count |-> page.matches[2][1], log |-> ""]
    ELSE IF page.matches[3] # None THEN [count |-> page.matches[3][1], log |-> ""]
    ELSE IF page.matches[4] # None THEN [count |-> page.matches[4][1], log |-> ""]
    ELSE IF page.no_results THEN [count |-> 0, log |-> ""]
    ELSE [count |-> 0, log |-> "warning"]

CallFetchFinvizCount ==
    /\ Idle
    /\ \E page \in FinvizPages :
         Returns("fetch_finviz_count", Args("", FALSE, None, 0, page),
                 Value(fetch_finviz_count(page)))

\* ------------------------------------------------------------------------
\* api/breadth
\* ------------------------------------------------------------------------
\* What the provider holds during one request.  "outage": every call fails.
\* "normal": AAA at +5%, BBB at -6%, CCC at +1%, full history.  "foreign":
\* the snapshot answer also names ZZZ, which was not asked for, and every
\* symbol is at +5%.  "shape": the snapshot answer is JSON whose "tickers" is
\* null.
MarketScenarios == { "outage", "normal", "foreign", "shape" }

Market(scenario) ==
    [ net |-> IF scenario = "outage" THEN Net({1}, "timeout", "all", {})
              ELSE IF scenario = "shape" THEN Net({1}, "shape", "all", {})
              ELSE IF scenario = "foreign" THEN Net({}, "none", "extra", {"ZZZ"})
              ELSE NoNet,
      snap |-> [ s \in AllSymbols |->
                   IF scenario = "normal" /\ s = "BBB" THEN Snap(94, 0, 0, 100, -6)
                   ELSE IF scenario = "normal" /\ s = "CCC" THEN Snap(101, 0, 0, 100, 1)
                   ELSE Snap(105, 0, 0, 100, 5) ],
      hist |-> IF scenario = "outage" THEN "none" ELSE "low",
      bits |-> [ i \in 1..11 |-> IF scenario = "outage" THEN 0 ELSE 1 ],
      movers |-> [ i \in 0..9 |-> [up |-> (i % 3) + 1, down |-> (i % 2) + 1] ],
      closes |-> [ days |-> [ s \in UniverseSet |->
                                IF scenario = "outage" THEN 0 ELSE 40 ],
                   level |-> 90 ] ]

\* response: the snapshot built from the indicators
breadth_response(indicators) ==
    [ date |-> StrftimeAt[clock],
      timestamp |-> now,
      universeCount |-> Len(BREADTH_UNIVERSE),
      primary |-> indicators.primary,
      secondary |-> indicators.secondary,
      market |-> indicators.market,
      t2108 |-> indicators.t2108 ]

\* main from the historical closes on, given the snapshots fetched
breadth_indicators(snapshots, ratios, market) ==
    calculate_breadth_indicators(snapshots, HistOf(market.hist), ratios[1], ratios[2],
        calculate_t2108(snapshots, BREADTH_UNIVERSE, market.closes))

\* main after the snapshot fetch f; an exception ends in the except branch
breadth_after_fetch(f, market) ==
    IF f.exc
    THEN [r |-> Http(500, [error |-> "TypeError"]), fetched |-> TRUE]
    ELSE [r |-> Http(200, breadth_response(breadth_indicators(
                     [s \in f.snapshots |-> market.snap[s]],
                     calculate_rolling_ratios(market.bits, market.movers),
                     market))),
          fetched |-> TRUE]

\* main: the response, and whether the provider was called
breadth_main(market) ==
    IF ~apiKey
    THEN [r |-> Http(500, [error |-> "Polygon API key not configured"]),
          fetched |-> FALSE]
    ELSE breadth_after_fetch(
             fetch_current_snapshots(BREADTH_UNIVERSE \o <<"SPY">>,
                                     BREADTH_BATCH_SIZE, market.net),
             market)

\* the endpoint keeps nothing in Redis
Breadth ==
    /\ scope = "live"
    /\ \E scenario \in MarketScenarios :
         \E o \in { breadth_main(Market(scenario)) } :
            resp' = [op |-> "breadth", args |-> Args(scenario, FALSE, None, 0, NoData),
                     r |-> o.r, degraded |-> FALSE, fetched |-> o.fetched,
                     at |-> clock, cacheUsed |-> FALSE, ttl |-> 0]
    /\ UNCHANGED <<clock, connStr, apiKey, redisClient, cache, histVal, histIdx,
                   scope, pc, loc, db>>

NextCalc ==
    \/ CallBreadthResponse
    \/ CallRollingRatios
    \/ CallIsMarketOpen
    \/ CallGetClosureReason
    \/ CallFetchSnapshots
    \/ CallBreadthIndicators
    \/ CallT2108
    \/ CallFetchFinvizCount

SpecCalc == InitCalc /\ [][NextCalc]_vars

Next ==
    \/ BreadthDaily
    \/ FixBreadthDelete
    \/ FixBreadthRefresh
    \/ FixBreadthUsage
    \/ BreadthHistory
    \/ SectorRotation
    \/ FixSectorNhnl
    \/ CleanupHolidays
    \/ Breadth
    \/ AdvanceTime

Spec == Init /\ [][Next]_vars

\* ------------------------------------------------------------------------
\* the aggregators over several days
\* ------------------------------------------------------------------------
\* the last instant of ClockOffsets the aggregators are followed to: the
\* two instants of Christmas Day, then the trading day 2026-01-23
LastInstant == 3

\* both backends configured; a behaviour follows one aggregator
InitDays ==
    /\ clock = 1
    /\ connStr = TRUE
    /\ apiKey = TRUE
    /\ redisClient = FALSE
    /\ cache = [k \in CacheKeys |-> None]
    /\ histVal = [sr \in Series |-> [d \in AllDates |-> None]]
    /\ histIdx = [sr \in Series |-> {}]
    /\ resp = NoResp
    /\ NoRequests
    /\ scope \in {"breadth", "sector"}

NextInstant ==
    /\ clock < LastInstant
    /\ clock < Len(ClockOffsets)
    /\ clock' = clock + 1
    /\ cache' = Expire(cache, NowAt(clock + 1))
    /\ UNCHANGED <<connStr, apiKey, redisClient, histVal, histIdx, resp, scope,
                   pc, loc, db>>

NextDays == BreadthDaily \/ SectorRotation \/ NextInstant

SpecDays == InitDays /\ [][NextDays]_vars

\* ------------------------------------------------------------------------
\* requests in flight at once: a step is one call on Redis or PostgreSQL,
\* and the steps of different requests interleave freely
\* ------------------------------------------------------------------------
Races == { "breadth-daily", "fix-sector-nhnl", "market-summary", "run-prompt" }

\* request p of the endpoint stands at the label
At(p, race, label) == scope = race /\ pc[p] = label

\* request p moves to the label with the locals
Goto(p, label, locals) ==
    /\ pc' = [pc EXCEPT ![p] = label]
    /\ loc' = [loc EXCEPT ![p] = locals]

\* the response has been sent; the worker takes the next request
Return(p) ==
    /\ pc[p] = "done"
    /\ scope \in Races
    /\ Goto(p, "idle", NoLocals)
    /\ UNCHANGED <<clock, connStr, apiKey, redisClient, cache, histVal, histIdx,
                   resp, scope, db>>

\* ------------------------------------------------------------------------
\* api/breadth-daily, step by step
\* ------------------------------------------------------------------------
\* the cache is read unless refresh=true; a hit is answered at once
BdGetCached(p) ==
    /\ At(p, "breadth-daily", "idle")
    /\ \E refresh \in BOOLEAN :
         \E g \in { IF refresh THEN [s |-> World0, r |-> None]
                    ELSE get_cached(World0, {}, CACHE_KEY) } :
            /\ Commit(g.s)
            /\ IF g.r # None /\ Truthy(g.r[1])
               THEN Goto(p, "done",
                      [NoLocals EXCEPT !.r = Http(200, [g.r[1] EXCEPT !.cached = TRUE])])
               ELSE Goto(p, "fetch", NoLocals)
    /\ UNCHANGED <<clock, connStr, apiKey, resp, scope, db>>

\* the counts are fetched from Finviz and the response is built
BdFetch(p) ==
    /\ At(p, "breadth-daily", "fetch")
    /\ \E results \in FinvizOutcomes :
         Goto(p, "set_cached",
              [NoLocals EXCEPT !.data = BreadthResponse(results, StrftimeAt[clock], now)])
    /\ UNCHANGED <<clock, connStr, apiKey, redisClient, cache, histVal, histIdx,
                   resp, scope, db>>

\* set_cached(CACHE_KEY, response, CACHE_TTL_DAILY)
BdSetCached(p) ==
    /\ At(p, "breadth-daily", "set_cached")
    /\ \E w \in { set_cached(World0, {}, CACHE_KEY, loc[p].data, CACHE_TTL_DAILY) } :
         Commit(w.s)
    /\ Goto(p, "should_save", loc[p])
    /\ UNCHANGED <<clock, connStr, apiKey, resp, scope, db>>

\* if should_save_daily_snapshot('breadth:daily'):
BdShouldSave(p) ==
    /\ At(p, "breadth-daily", "should_save")
    /\ \E sh \in { should_save_daily_snapshot(World0, {}, "breadth:daily") } :
         /\ Commit(sh.s)
         /\ IF sh.r THEN Goto(p, "save", [loc[p] EXCEPT !.flag = TRUE])
            ELSE Goto(p, "done", [loc[p] EXCEPT !.r = Http(200, loc[p].data)])
    /\ UNCHANGED <<clock, connStr, apiKey, resp, scope, db>>

\* save_daily_snapshot('breadth:daily', response)
BdSave(p) ==
    /\ At(p, "breadth-daily", "save")
    /\ \E sv \in { save_daily_snapshot(World0, {}, "breadth:daily", loc[p].data, None) } :
         Commit(sv.s)
    /\ Goto(p, "done", [loc[p] EXCEPT !.r = Http(200, loc[p].data)])
    /\ UNCHANGED <<clock, connStr, apiKey, resp, scope, db>>

BreadthDailySteps ==
    \E p \in Procs :
       BdGetCached(p) \/ BdFetch(p) \/ BdSetCached(p) \/ BdShouldSave(p) \/ BdSave(p)

\* ------------------------------------------------------------------------
\* api/fix-sector-nhnl recalculating a date, step by step
\* ------------------------------------------------------------------------
\* the checks of the date and of the key, the clearing of the 15-day cache
\* and the fetch of the day's counts from Polygon
FsStart(p) ==
    /\ At(p, "fix-sector-nhnl", "idle")
    /\ \E dateArg \in {None} \cup { Some(d) : d \in ReqDates },
          outcome \in PolygonOutcomes :
         LET target_date == IF dateArg = None THEN TodayPstAt[clock] ELSE dateArg[1]
             open == is_trading_day[target_date]
             day_data == [date |-> target_date,
                          sectors |-> SectorCounts(NhnlShortNames, "Tech", outcome)]
         IN  IF open.exc
             THEN /\ Goto(p, "done", [NoLocals EXCEPT !.date = Some(target_date),
                                        !.r = Http(500, [error |-> "ValueError"])])
                  /\ UNCHANGED <<redisClient, cache, histVal, histIdx>>
             ELSE IF ~open.ret
             THEN /\ Goto(p, "done", [NoLocals EXCEPT !.date = Some(target_date),
                                        !.r = Http(400, [error |-> "not a trading day"])])
                  /\ UNCHANGED <<redisClient, cache, histVal, histIdx>>
             ELSE /\ \E c15 \in { set_cached(World0, {}, "sector-rotation:15day-highlow",
                                             None, 0) } : Commit(c15.s)
                  /\ Goto(p, "get_history",
                          [NoLocals EXCEPT !.date = Some(target_date),
                             !.data = [day_data |-> day_data,
                                       history |-> [days |-> <<>>]]])
    /\ UNCHANGED <<clock, connStr, apiKey, resp, scope, db>>

\* history = get_cached(history_key) or {'days': []}
FsGetHistory(p) ==
    /\ At(p, "fix-sector-nhnl", "get_history")
    /\ \E g \in { get_cached(World0, {}, HISTORY_KEY) } :
         /\ Commit(g.s)
         /\ Goto(p, "set_history",
                 [loc[p] EXCEPT !.data.history = HistoryOrEmpty(g.r)])
    /\ UNCHANGED <<clock, connStr, apiKey, resp, scope, db>>

\* update or append, sort, keep 20, and set_cached(history_key, history, ...)
FsSetHistory(p) ==
    /\ At(p, "fix-sector-nhnl", "set_history")
    /\ LET history == loc[p].data.history
           day_data == loc[p].data.day_data
           days == Keep(SortDesc(UpdateOrAppend(history.days, day_data)), HISTORY_KEEP)
       IN  /\ \E w \in { set_cached(World0, {}, HISTORY_KEY,
                                    [history EXCEPT !.days = days], HISTORY_TTL) } :
                Commit(w.s)
           /\ Goto(p, "done",
                   [loc[p] EXCEPT !.r = Http(200, [success |-> TRUE,
                                                   date |-> day_data.date,
                                                   sectors |-> day_data.sectors])])
    /\ UNCHANGED <<clock, connStr, apiKey, resp, scope, db>>

FixSectorNhnlSteps ==
    \E p \in Procs : FsStart(p) \/ FsGetHistory(p) \/ FsSetHistory(p)

\* ------------------------------------------------------------------------
\* api/shared/database.py: the table market_summaries, a set of rows whose
\* summary_date is a DATE (a day number) and is unique
\* ------------------------------------------------------------------------
\* INSERT ... ON CONFLICT (summary_date) DO UPDATE
save_market_summary(rows, summary_date, summary_text) ==
    { r \in rows : r.summary_date # DaysFromCivil(summary_date) }
      \cup { [summary_date |-> DaysFromCivil(summary_date),
              summary_text |-> summary_text,
              generated_at |-> now] }

\* ORDER BY summary_date DESC
RECURSIVE NewestFirst(_)
NewestFirst(rows) ==
    IF rows = {} THEN <<>>
    ELSE LET top == CHOOSE r \in rows : \A o \in rows : o.summary_date <= r.summary_date
         IN  <<top>> \o NewestFirst(rows \ {top})

\* SELECT ... ORDER BY summary_date DESC LIMIT limit
get_market_summaries(rows, limit) ==
    IF Cardinality(rows) <= limit THEN NewestFirst(rows)
    ELSE SubSeq(NewestFirst(rows), 1, limit)

\* DELETE ... WHERE summary_date < CURRENT_DATE - INTERVAL 'keep_days days'
cleanup_old_summaries(rows, keep_days) ==
    { r \in rows : ~(r.summary_date < DaysFromCivil(StrftimeAt[clock]) - keep_days) }

\* ------------------------------------------------------------------------
\* api/market-summary, step by step; the caller is authenticated, the key
\* parameter is right and ANTHROPIC_API_KEY is configured
\* ------------------------------------------------------------------------
CACHE_KEY_SUMMARIES == "market_summaries:latest"
CACHE_TTL_SUMMARIES == 60

\* what generate_summary returns for a prompt: nothing, or one of two texts
SummaryTexts == { "", "summary A", "summary B" }

\* the rows as handle_get serialises them: isoformat() of the date
Serialised(summaries) ==
    [ i \in 1..Len(summaries) |->
        [ summary_date |-> CivilFromDays(summaries[i].summary_date),
          summary_text |-> summaries[i].summary_text,
          generated_at |-> summaries[i].generated_at ] ]

\* client.delete(CACHE_KEY_SUMMARIES), every exception swallowed
invalidate_summary_cache(s, F) ==
    LET c == get_redis_client(s, F) IN
    IF ~c.client THEN c.s
    ELSE IF Failed(c.s, F) THEN Call(c.s, "delete")
    ELSE [Call(c.s, "delete") EXCEPT !.cache[CACHE_KEY_SUMMARIES] = None]

\* the dates whose summary has been saved and whose invalidation of the
\* cache has completed
Published ==
    { CivilFromDays(r.summary_date) : r \in
        { r \in db.summaries :
            ~\E q \in Procs : /\ pc[q] = "invalidate"
                              /\ loc[q].date = Some(CivilFromDays(r.summary_date)) } }

\* handle_get: the cache is read, and a hit is answered at once.  The
\* request remembers the dates published when it began.
GetCheckCache(p) ==
    /\ At(p, "market-summary", "idle")
    /\ \E g \in { get_cached(World0, {}, CACHE_KEY_SUMMARIES) } :
         /\ Commit(g.s)
         /\ IF g.r # None /\ Truthy(g.r[1])
            THEN Goto(p, "done", [NoLocals EXCEPT !.op = "GET",
                                    !.data = [began |-> Published],
                                    !.r = Http(200, g.r[1])])
            ELSE Goto(p, "read_db", [NoLocals EXCEPT !.op = "GET",
                                       !.data = [began |-> Published]])
    /\ UNCHANGED <<clock, connStr, apiKey, resp, scope, db>>

\* summaries = get_market_summaries(limit=5), serialised
GetReadDb(p) ==
    /\ At(p, "market-summary", "read_db")
    /\ Goto(p, "set_cached",
            [loc[p] EXCEPT !.r = Http(200,
               [summaries |-> Serialised(get_market_summaries(db.summaries, 5))])])
    /\ UNCHANGED <<clock, connStr, apiKey, redisClient, cache, histVal, histIdx,
                   resp, scope, db>>

\* set_cached(CACHE_KEY_SUMMARIES, response_data, CACHE_TTL_SUMMARIES)
GetSetCached(p) ==
    /\ At(p, "market-summary", "set_cached")
    /\ \E w \in { set_cached(World0, {}, CACHE_KEY_SUMMARIES, loc[p].r.body,
                             CACHE_TTL_SUMMARIES) } : Commit(w.s)
    /\ Goto(p, "done", loc[p])
    /\ UNCHANGED <<clock, connStr, apiKey, resp, scope, db>>

\* handle_post up to the market-closed check; date_param is None when the
\* date parameter is missing
PostStart(p) ==
    /\ At(p, "market-summary", "idle")
    /\ \E date_param \in {None} \cup { Some(d) : d \in SummaryDates },
          force \in BOOLEAN :
         LET summary_date == IF date_param = None THEN TodayPstAt[clock]
                             ELSE date_param[1]
             l == [NoLocals EXCEPT !.op = "POST", !.date = Some(summary_date),
                                   !.flag = force, !.n = Len(date_param)]
         IN  IF ~force /\ is_trading_day[summary_date] # Ret(TRUE)
             THEN Goto(p, "done",
                       [l EXCEPT !.r = Http(200, [date |-> summary_date,
                                                  market_open |-> FALSE])])
             ELSE Goto(p, IF force THEN "generate" ELSE "check_existing", l)
    /\ UNCHANGED <<clock, connStr, apiKey, redisClient, cache, histVal, histIdx,
                   resp, scope, db>>

\* existing = get_market_summaries(limit=1), compared with summary_date
PostCheckExisting(p) ==
    /\ At(p, "market-summary", "check_existing")
    /\ LET existing == get_market_summaries(db.summaries, 1) IN
       IF existing # <<>>
          /\ CivilFromDays(existing[1].summary_date) = loc[p].date[1]
       THEN Goto(p, "done",
                 [loc[p] EXCEPT !.r = Http(200,
                    [message |-> "Summary already exists for today",
                     date |-> loc[p].date[1]])])
       ELSE Goto(p, "generate", loc[p])
    /\ UNCHANGED <<clock, connStr, apiKey, redisClient, cache, histVal, histIdx,
                   resp, scope, db>>

\* summary_text = generate_summary(prompt_text); an empty text is refused
PostGenerate(p) ==
    /\ At(p, "market-summary", "generate")
    /\ \E summary_text \in SummaryTexts :
         IF summary_text = ""
         THEN Goto(p, "done",
                   [loc[p] EXCEPT !.r = Http(500,
                      [error |-> "Generated summary was empty"])])
         ELSE Goto(p, "save", [loc[p] EXCEPT !.data = [text |-> summary_text]])
    /\ UNCHANGED <<clock, connStr, apiKey, redisClient, cache, histVal, histIdx,
                   resp, scope, db>>

\* save_market_summary(summary_date, summary_text)
PostSave(p) ==
    /\ At(p, "market-summary", "save")
    /\ db' = [db EXCEPT !.summaries =
                save_market_summary(@, loc[p].date[1], loc[p].data.text)]
    /\ Goto(p, "invalidate", loc[p])
    /\ UNCHANGED <<clock, connStr, apiKey, redisClient, cache, histVal, histIdx,
                   resp, scope>>

\* invalidate_summary_cache()
PostInvalidate(p) ==
    /\ At(p, "market-summary", "invalidate")
    /\ Commit(invalidate_summary_cache(World0, {}))
    /\ Goto(p, "cleanup", loc[p])
    /\ UNCHANGED <<clock, connStr, apiKey, resp, scope, db>>

\* deleted = cleanup_old_summaries(keep_days=5), and the answer
PostCleanup(p) ==
    /\ At(p, "market-summary", "cleanup")
    /\ db' = [db EXCEPT !.summaries = cleanup_old_summaries(@, 5)]
    /\ Goto(p, "done",
            [loc[p] EXCEPT !.r = Http(200,
               [message |-> "Summary generated successfully",
                date |-> loc[p].date[1]])])
    /\ UNCHANGED <<clock, connStr, apiKey, redisClient, cache, histVal, histIdx,
                   resp, scope>>

MarketSummarySteps ==
    \E p \in Procs :
       \/ GetCheckCache(p) \/ GetReadDb(p) \/ GetSetCached(p)
       \/ PostStart(p) \/ PostCheckExisting(p) \/ PostGenerate(p)
       \/ PostSave(p) \/ PostInvalidate(p) \/ PostCleanup(p)

\* ------------------------------------------------------------------------
\* api/shared/database.py: the rows of the table usage of one user, prompt
\* type and month
\* ------------------------------------------------------------------------
\* SELECT COUNT(*) FROM usage WHERE user_id, prompt_type, month_year
get_usage_count(rows) == Len(rows)

\* INSERT INTO usage (...)
record_usage(rows, cached) == Append(rows, [cached |-> cached])

\* ------------------------------------------------------------------------
\* api/run-prompt for a subscriber who is not an admin, step by step
\* ------------------------------------------------------------------------
MONTHLY_LIMIT == 30

\* usage_count = get_usage_count(...), refused at the monthly limit
RpCheckUsage(p) ==
    /\ At(p, "run-prompt", "idle")
    /\ LET usage_count == get_usage_count(db.usage) IN
       IF usage_count >= MONTHLY_LIMIT
       THEN Goto(p, "done",
                 [NoLocals EXCEPT !.n = usage_count,
                    !.r = Http(429, [code |-> "LIMIT_REACHED", usage |-> usage_count,
                                     limit |-> MONTHLY_LIMIT])])
       ELSE Goto(p, "answer", [NoLocals EXCEPT !.n = usage_count])
    /\ UNCHANGED <<clock, connStr, apiKey, redisClient, cache, histVal, histIdx,
                   resp, scope, db>>

\* the result is found in the cache, or the model answers, or the call of
\* the model fails and the request ends without a usage record
RpAnswer(p) ==
    /\ At(p, "run-prompt", "answer")
    /\ \E outcome \in {"cached", "answered", "failed"} :
         IF outcome = "failed"
         THEN Goto(p, "done", [loc[p] EXCEPT !.r = Http(500, [error |-> "AI service error"])])
         ELSE Goto(p, "record", [loc[p] EXCEPT !.flag = (outcome = "cached")])
    /\ UNCHANGED <<clock, connStr, apiKey, redisClient, cache, histVal, histIdx,
                   resp, scope, db>>

\* record_usage(user_id, prompt_type, ticker, month_year, cached), and the
\* answer with used = usage_count + 1
RpRecordUsage(p) ==
    /\ At(p, "run-prompt", "record")
    /\ db' = [db EXCEPT !.usage = record_usage(@, loc[p].flag)]
    /\ Goto(p, "done",
            [loc[p] EXCEPT !.r = Http(200, [cached |-> loc[p].flag,
                                            used |-> loc[p].n + 1,
                                            limit |-> MONTHLY_LIMIT])])
    /\ UNCHANGED <<clock, connStr, apiKey, redisClient, cache, histVal, histIdx,
                   resp, scope>>

RunPromptSteps ==
    \E p \in Procs : RpCheckUsage(p) \/ RpAnswer(p) \/ RpRecordUsage(p)

\* the usage records of the month when the requests arrive: two or one
\* fewer than the monthly limit
UsedSoFar ==
    { [i \in 1..n |-> [cached |-> FALSE]] :
        n \in {MONTHLY_LIMIT - 2, MONTHLY_LIMIT - 1} }

\* ------------------------------------------------------------------------
\* the specification of the requests in flight at once
\* ------------------------------------------------------------------------
InitRace ==
    /\ clock = 1
    /\ connStr = TRUE
    /\ apiKey = TRUE
    /\ redisClient = FALSE
    /\ cache = [k \in CacheKeys |-> None]
    /\ histVal = [sr \in Series |-> [d \in AllDates |-> None]]
    /\ histIdx = [sr \in Series |-> {}]
    /\ resp = NoResp
    /\ pc = [p \in Procs |-> "idle"]
    /\ loc = [p \in Procs |-> NoLocals]
    /\ scope \in Races
    /\ \E used \in UsedSoFar :
         db = [summaries |-> {},
               usage |-> IF scope = "run-prompt" THEN used ELSE <<>>]

NextRace ==
    \/ BreadthDailySteps
    \/ FixSectorNhnlSteps
    \/ MarketSummarySteps
    \/ RunPromptSteps
    \/ \E p \in Procs : Return(p)

SpecRace == InitRace /\ [][NextRace]_vars

\* ------------------------------------------------------------------------
\* properties
\* ------------------------------------------------------------------------
\* the step is a call of op, made at the current instant
Did(op) == resp'.op = op /\ clock' = clock

\* the oldest timestamp that is not more than 30 days before now
Cutoff == now - RETENTION_DAYS * MinutesPerDay

\* a breadth snapshot in which every count is zero
AllZeroBreadth(b) ==
    /\ b.universeCount = 0
    /\ b.highs.new52WeekHigh = 0 /\ b.highs.new52WeekLow = 0
    /\ b.rsi.above70 = 0 /\ b.rsi.below30 = 0

\* a sector day in which every count is zero
AllZeroSectors(day) ==
    \A n \in DOMAIN day.sectors : day.sectors[n].nh = 0 /\ day.sectors[n].nl = 0

\* the days of the stored NH/NL history
NhnlDays(c) ==
    IF c[HISTORY_KEY] = None THEN <<>> ELSE Loads(c[HISTORY_KEY].text).days

\* C1: through breadth-daily, fix-breadth?action=refresh and fix-sector-nhnl,
\* a snapshot whose counts are all zero never replaces a stored entry of the
\* same date that has a non-zero count.
C1_NonZeroKept ==
    [][ /\ \A d \in AllDates :
             ( /\ resp'.op \in {"breadth-daily", "fix-breadth"}
               /\ histVal["breadth:daily"][d] # None
               /\ ~AllZeroBreadth(Loads(histVal["breadth:daily"][d]))
               /\ histVal'["breadth:daily"][d] # None )
             => ~AllZeroBreadth(Loads(histVal'["breadth:daily"][d]))
        /\ \A i \in 1..Len(NhnlDays(cache)), j \in 1..Len(NhnlDays(cache')) :
             ( /\ Did("fix-sector-nhnl")
               /\ NhnlDays(cache)[i].date = NhnlDays(cache')[j].date
               /\ ~AllZeroSectors(NhnlDays(cache)[i]) )
             => ~AllZeroSectors(NhnlDays(cache')[j])
      ]_vars

\* C2: every date of the breadth:daily history index, and every day of the
\* NH/NL history, is a date on which is_market_open holds.
C2_OnlyTradingDays ==
    /\ \A e \in histIdx["breadth:daily"] : is_trading_day[e[1]] = Ret(TRUE)
    /\ \A i \in 1..Len(NhnlDays(cache)) :
         is_trading_day[NhnlDays(cache)[i].date] = Ret(TRUE)

\* the previous call was a save_daily_snapshot that answered True, and the
\* step is a get_history of the same series for at least as many days as the
\* index holds
SaveThenHistory ==
    /\ resp.op = "save_daily_snapshot" /\ resp.r.flag /\ resp.at = clock
    /\ Did("get_history")
    /\ resp'.args.name = resp.args.name
    /\ resp'.args.n >= Cardinality(histIdx[resp.args.name])

Returned(history, date, data) ==
    \E i \in 1..Len(history) : history[i] = [date |-> date, data |-> data]

\* C3 as stated: whenever save_daily_snapshot(series, v, d) answers True, the
\* get_history(series, days) that follows it, with days at least the number of
\* indexed dates, contains {date: d, data: v}.
C3_AsStated ==
    [][ SaveThenHistory => Returned(resp'.r.list, resp.args.param, resp.args.data) ]_vars

\* C3: when save_daily_snapshot(series, v, d) answers True for a date d whose
\* midnight is less than 30 days before now, the get_history(series, days)
\* that follows it, with days at least the number of indexed dates and all
\* its backend calls succeeding, contains {date: d, data: v}.
C3_SavedIsReturned ==
    [][ ( /\ SaveThenHistory
          /\ DateTimestamp(resp.args.param) > Cutoff
          /\ ~resp'.degraded )
        => Returned(resp'.r.list, resp.args.param, resp.args.data) ]_vars

\* a save of a date inside the retention window has answered True and left
\* the date indexed with its value
C3_Witness ==
    /\ resp.op = "save_daily_snapshot" /\ resp.r.flag /\ resp.at = clock
    /\ DateTimestamp(resp.args.param) > Cutoff
    /\ histVal[resp.args.name][resp.args.param] = Dumps(resp.args.data)
    /\ \E e \in histIdx[resp.args.name] : e[1] = resp.args.param

\* C4: a save_daily_snapshot that answers True leaves no date in the index
\* that is more than 30 days before now, and the get_history that follows it
\* returns no entry of such a date.
C4_Retention ==
    [][ /\ ( Did("save_daily_snapshot") /\ resp'.r.flag )
           => \A e \in histIdx'[resp'.args.name] : e[2] >= Cutoff
        /\ ( /\ resp.op = "save_daily_snapshot" /\ resp.r.flag /\ resp.at = clock
             /\ Did("get_history") /\ resp'.args.name = resp.args.name )
           => \A i \in 1..Len(resp'.r.list) : DateTimestamp(resp'.r.list[i].date) >= Cutoff
      ]_vars

\* a save for a date more than 30 days back has answered True: its value is
\* stored and its date is gone from the index
C4_Witness ==
    /\ resp.op = "save_daily_snapshot" /\ resp.r.flag /\ resp.at = clock
    /\ DateTimestamp(resp.args.param) < Cutoff
    /\ histVal[resp.args.name][resp.args.param] # None
    /\ \A e \in histIdx[resp.args.name] : e[1] # resp.args.param

\* the n index entries with the highest scores
MostRecent(zset, n) ==
    { e \in zset : Cardinality({ o \in zset : o[2] > e[2] }) < n }

\* C5: a get_history(series, days) with days >= 1 whose backend calls succeed
\* returns, newest first, exactly the entries of the min(days, n) most recent
\* index dates that have a stored value; dates without a value are skipped.
C5_HistoryContents ==
    ( resp.op = "get_history" /\ ~resp.degraded /\ resp.args.n >= 1 ) =>
        LET sr   == resp.args.name
            want == { e \in MostRecent(histIdx[sr], resp.args.n) :
                        histVal[sr][e[1]] # None }
        IN  /\ Len(resp.r.list) = Cardinality(want)
            /\ \A e \in want : Returned(resp.r.list, e[1], Loads(histVal[sr][e[1]]))
            /\ \A i \in 1..(Len(resp.r.list) - 1) :
                 DateTimestamp(resp.r.list[i].date) > DateTimestamp(resp.r.list[i + 1].date)

\* days=10 against an index of fewer dates, one of them without a value:
\* the stored ones come back
C5_Witness ==
    /\ resp.op = "get_history" /\ ~resp.degraded /\ resp.args.n = 10
    /\ Len(resp.r.list) >= 1
    /\ Len(resp.r.list) < Cardinality(histIdx[resp.args.name])
    /\ \E e \in histIdx[resp.args.name] : histVal[resp.args.name][e[1]] = None

\* should_save_daily_snapshot was the last call, made at the current instant
AskedShouldSave ==
    resp.op = "should_save_daily_snapshot" /\ resp.at = clock

\* nothing is stored under {series}:history:{today}
NothingStoredToday == histVal[resp.args.name][Strftime(now)] = None

\* C6 as stated: should_save_daily_snapshot(series) answers True exactly when
\* no value is stored under {series}:history:{today}.
C6_AsStated ==
    AskedShouldSave => (resp.r.flag <=> NothingStoredToday)

\* C6: should_save_daily_snapshot(series) answers True exactly when its
\* backend call succeeds and no value is stored under
\* {series}:history:{today}; with the backend unconfigured, unreachable or
\* failing it answers False.
C6_TrueIffAbsent ==
    AskedShouldSave => (resp.r.flag <=> (~resp.degraded /\ NothingStoredToday))

\* asked with a working backend while today's value is stored: False
C6_Witness ==
    /\ AskedShouldSave /\ ~resp.degraded
    /\ ~NothingStoredToday
    /\ ~resp.r.flag

\* C7: with the backend unconfigured or unreachable, or one of its calls
\* failing, get_cached returns None, set_cached and save_daily_snapshot
\* return False and get_history returns the empty list.
C7_FailSoft ==
    resp.degraded =>
        /\ resp.op = "get_cached" => resp.r.list = None
        /\ resp.op = "set_cached" => ~resp.r.flag
        /\ resp.op = "save_daily_snapshot" => ~resp.r.flag
        /\ resp.op = "get_history" => resp.r.list = <<>>

\* get_history over a connected client and an index whose dates have values:
\* a call failed and the answer is empty
C7_Witness ==
    /\ resp.op = "get_history" /\ resp.degraded /\ resp.args.n >= 1
    /\ connStr /\ redisClient
    /\ \E e \in histIdx[resp.args.name] : histVal[resp.args.name][e[1]] # None
    /\ resp.r.list = <<>>

Endpoints ==
    { "breadth-daily", "sector-rotation", "breadth-history", "fix-breadth",
      "fix-sector-nhnl" }

\* what makes a request fail whatever the state of the cache: a days
\* parameter that is no number, or the market-data key missing
OtherCause ==
    \/ resp.op = "breadth-history" /\ resp.args.param = NotANumber
    \/ resp.op \in {"sector-rotation", "fix-sector-nhnl"} /\ ~apiKey

\* C8 as stated: no endpoint that uses the cache answers with a server error
\* because the cache is unavailable.
C8_AsStated ==
    ( resp.op \in Endpoints /\ resp.r.status >= 500 ) => OtherCause

\* C8: breadth-daily, sector-rotation, breadth-history, fix-sector-nhnl and
\* the refresh and usage actions of fix-breadth never answer with a server
\* error because the cache is unavailable (fix-breadth?action=delete does).
C8_NoCacheError ==
    ( /\ resp.op \in Endpoints
      /\ ~(resp.op = "fix-breadth" /\ resp.args.name = "delete")
      /\ resp.r.status >= 500 ) => OtherCause

\* breadth-daily answered 200 although the configured backend failed it
C8_Witness ==
    /\ resp.op = "breadth-daily" /\ resp.degraded /\ connStr
    /\ resp.r.status = 200

CachingEndpoints == { "breadth-daily", "sector-rotation" }

\* the cache key a request of a caching endpoint reads
KeyOf(op, args) ==
    IF op = "breadth-daily" THEN CACHE_KEY
    ELSE IF args.name = "weekly" THEN "sector-rotation:weekly"
    ELSE "sector-rotation:daily"

\* C9: a breadth-daily or sector-rotation request without refresh that finds
\* a cache entry answers that entry marked cached=true, makes no upstream
\* fetch, and writes neither the cache nor the snapshot history.
C9_HitIsReadOnly ==
    [][ \A op \in CachingEndpoints :
          ( /\ Did(op) /\ ~resp'.args.flag /\ ~resp'.degraded
            /\ cache[KeyOf(op, resp'.args)] # None )
          => /\ resp'.r.status = 200
             /\ resp'.r.body =
                  [Loads(cache[KeyOf(op, resp'.args)].text) EXCEPT !.cached = TRUE]
             /\ ~resp'.fetched
             /\ cache' = cache /\ histVal' = histVal /\ histIdx' = histIdx
      ]_vars

\* sector-rotation answered from its cache entry
C9_Witness ==
    /\ resp.op = "sector-rotation" /\ ~resp.args.flag /\ ~resp.fetched
    /\ resp.r.status = 200
    /\ resp.r.body.cached
    /\ cache[KeyOf(resp.op, resp.args)] # None

\* the last request computed its answer and the entry it wrote is live; the
\* step repeats the request, without refresh
MissThenRepeat(op) ==
    /\ resp.op = op /\ ~resp.args.flag /\ resp.fetched /\ resp.r.status = 200
    /\ cache[KeyOf(op, resp.args)] # None
    /\ cache[KeyOf(op, resp.args)].text = Dumps(resp.r.body)
    /\ Did(op) /\ resp'.args = resp.args

\* C10 as stated: of two consecutive requests without refresh, the second
\* within the TTL of the entry the first wrote, both return the same JSON.
C10_AsStated ==
    [][ \A op \in CachingEndpoints :
          MissThenRepeat(op) => resp'.r.body = resp.r.body ]_vars

\* C10: of two consecutive requests without refresh, the second within the
\* TTL of the entry the first wrote and reading it successfully, the second
\* returns the JSON of the first with cached=true in place of cached=false.
C10_SameButCached ==
    [][ \A op \in CachingEndpoints :
          ( MissThenRepeat(op) /\ ~resp'.degraded )
          => /\ resp'.r.status = 200
             /\ ~resp.r.body.cached
             /\ resp'.r.body = [resp.r.body EXCEPT !.cached = TRUE] ]_vars

\* breadth-daily answered, half an hour later, the entry of the first instant
C10_Witness ==
    /\ resp.op = "breadth-daily" /\ ~resp.args.flag /\ ~resp.fetched
    /\ resp.at = clock /\ clock > 1
    /\ resp.r.body.timestamp = NowAt(1)
    /\ resp.r.body.cached
    /\ cache[CACHE_KEY] # None
    /\ Dumps([resp.r.body EXCEPT !.cached = FALSE]) = cache[CACHE_KEY].text

\* ------------------------------------------------------------------------
\* C11
\* ------------------------------------------------------------------------
\* x is up/down rounded to two decimals (in hundredths): no other hundredth
\* is nearer to the quotient
Rounded(up, down, x) ==
    /\ x # None
    /\ LET e == 100 * up - x[1] * down
       IN  2 * (IF e < 0 THEN -e ELSE e) <= down

\* what the claim says the ratio of up and down is
RatioAsStated(up, down, x) ==
    IF down > 0 THEN Rounded(up, down, x)
    ELSE IF up > 0 THEN x = Some(9999)
    ELSE x = None

\* the days of a request that have a count: both the day and the day before
\* it have data
Counted(bits) == { i \in 0..9 : bits[i + 1] = 1 /\ bits[i + 2] = 1 }

\* the n most recent of them
MostRecentCounted(bits, n) ==
    { i \in Counted(bits) : Cardinality({ j \in Counted(bits) : j < i }) < n }

RECURSIVE Total(_, _, _)
Total(days, movers, side) ==
    IF days = {} THEN 0
    ELSE LET i == CHOOSE d \in days : TRUE
         IN  (IF side = "up" THEN movers[i].up ELSE movers[i].down)
             + Total(days \ {i}, movers, side)

ProfileNamed(name) == (CHOOSE p \in MoversProfiles : p.name = name).day

\* C11: every up/down ratio that is computed (highLowRatio, rsiRatio,
\* ratio5Day, ratio10Day) is up/down rounded to two decimals when down > 0,
\* 99.99 when down = 0 and up > 0, and null when both are 0.
C11_Ratios ==
    /\ resp.op = "BreadthResponse" =>
         LET high == resp.args.param[1]
             low  == resp.args.param[2]
         IN  /\ RatioAsStated(high, low, resp.r.body.highs.highLowRatio)
             /\ RatioAsStated(low, high, resp.r.body.rsi.rsiRatio)
    /\ resp.op = "calculate_rolling_ratios" =>
         LET bits   == resp.args.param
             movers == ProfileNamed(resp.args.name)
             d5     == MostRecentCounted(bits, 5)
             d10    == MostRecentCounted(bits, 10)
         IN  /\ Cardinality(Counted(bits)) >= 5 =>
                  RatioAsStated(Total(d5, movers, "up"), Total(d5, movers, "down"),
                                resp.r.list[1])
             /\ Cardinality(Counted(bits)) >= 10 =>
                  RatioAsStated(Total(d10, movers, "up"), Total(d10, movers, "down"),
                                resp.r.list[2])

\* a tie: 1/8 is 0.125 and is returned as 0.12, and 8/1 as 8.0
C11_Witness ==
    /\ resp.op = "BreadthResponse"
    /\ resp.args.param = <<1, 8>>
    /\ resp.r.body.highs.highLowRatio = Some(12)
    /\ resp.r.body.rsi.rsiRatio = Some(800)

\* a 5-day ratio computed from exactly five counted days
C11_RollingCase ==
    /\ resp.op = "calculate_rolling_ratios"
    /\ Cardinality(Counted(resp.args.param)) = 5
    /\ resp.args.name = "mixed"
    /\ resp.r.list[1] # None
    /\ resp.r.list[1][1] \notin {0, 9999}

\* ------------------------------------------------------------------------
\* C12
\* ------------------------------------------------------------------------
\* the weekdays of 2025-2027 on which the market is closed: the ten
\* holidays of each year as observed, and the special closure
ClosedWeekdays ==
    { <<2025, 1, 1>>, <<2025, 1, 9>>, <<2025, 1, 20>>, <<2025, 2, 17>>,
      <<2025, 4, 18>>, <<2025, 5, 26>>, <<2025, 6, 19>>, <<2025, 7, 4>>,
      <<2025, 9, 1>>, <<2025, 11, 27>>, <<2025, 12, 25>>,
      <<2026, 1, 1>>, <<2026, 1, 19>>, <<2026, 2, 16>>, <<2026, 4, 3>>,
      <<2026, 5, 25>>, <<2026, 6, 19>>, <<2026, 7, 3>>, <<2026, 9, 7>>,
      <<2026, 11, 26>>, <<2026, 12, 25>>,
      <<2027, 1, 1>>, <<2027, 1, 18>>, <<2027, 2, 15>>, <<2027, 3, 26>>,
      <<2027, 5, 31>>, <<2027, 6, 18>>, <<2027, 7, 5>>, <<2027, 9, 6>>,
      <<2027, 11, 25>>, <<2027, 12, 24>> }

\* the day of the week counted from a known Monday, 2024-01-01
IsWeekend(dt) ==
    (DaysFromCivil(dt) - DaysFromCivil(<<2024, 1, 1>>)) % 7 \in {5, 6}

\* C12: is_market_open(D) is false for every Saturday and Sunday of any
\* year; for a weekday D of 2025-2027 it is false exactly on the ten
\* holidays as observed and on the special closure 2025-01-09, and true
\* otherwise.
C12_CalendarTable ==
    resp.op = "is_market_open" =>
      LET dt == resp.args.param
      IN  /\ IsWeekend(dt) => resp.r = Bool(FALSE)
          /\ ~IsWeekend(dt) /\ dt[1] \in 2025..2027 =>
               resp.r = Bool(dt \notin ClosedWeekdays)

\* Independence Day 2026 falls on a Saturday and closes Friday 2026-07-03
C12_Witness ==
    /\ resp.op = "is_market_open"
    /\ resp.args.param = <<2026, 7, 3>>
    /\ resp.r = Bool(FALSE)

\* a Saturday of a year whose holiday set cannot be built
C12_WeekendAnyYear ==
    /\ resp.op = "is_market_open"
    /\ resp.args.param = <<2028, 1, 1>>
    /\ resp.r = Bool(FALSE)

\* ------------------------------------------------------------------------
\* C13
\* ------------------------------------------------------------------------
\* C13: for every well-formed date D, get_closure_reason(D) is the empty
\* string if and only if is_market_open(D) is true.
C13_ReasonIffClosed ==
    resp.op = "get_closure_reason" =>
      (resp.r = Value([reason |-> ""])
         <=> is_market_open(resp.args.param) = Ret(TRUE))

\* the special closure has a reason and the market is closed
C13_Witness ==
    /\ resp.op = "get_closure_reason"
    /\ resp.args.param = <<2025, 1, 9>>
    /\ resp.r = Value([reason |-> "Special market closure"])
    /\ is_market_open(resp.args.param) = Ret(FALSE)

\* an open day has no reason
C13_OpenDay ==
    /\ resp.op = "get_closure_reason"
    /\ resp.args.param = <<2025, 1, 10>>
    /\ resp.r = Value([reason |-> ""])
    /\ is_market_open(resp.args.param) = Ret(TRUE)

\* ------------------------------------------------------------------------
\* C14
\* ------------------------------------------------------------------------
\* a call of the snapshot fetch that returned
Fetched == resp.op = "fetch_current_snapshots" /\ resp.r.list = <<>>

\* the tickers the provider returned in the calls that succeeded
ReturnedByProvider ==
    LET net == Net(resp.args.data.failing, resp.args.name,
                   resp.args.data.policy, {0})
        reqs == resp.r.body.requests
    IN  UNION { Upstream(net, k, reqs[k]).tickers :
                  k \in (1..Len(reqs)) \ resp.args.data.failing }

\* C14: for n symbols and a batch limit b the snapshot fetch issues exactly
\* ceil(n / b) calls, every symbol is in exactly one batch, and the merged
\* result holds every symbol returned in a batch that succeeded.
C14_Batches ==
    Fetched =>
      LET n    == resp.args.param[1]
          b    == resp.args.param[2]
          reqs == resp.r.body.requests
      IN  /\ (Len(reqs) - 1) * b < n
          /\ n <= Len(reqs) * b
          /\ \A sym \in 1..n :
               Cardinality({ <<k, j>> \in (1..Len(reqs)) \X (1..b) :
                               j <= Len(reqs[k]) /\ reqs[k][j] = sym }) = 1
          /\ \A k \in 1..Len(reqs) : Len(reqs[k]) <= b
          /\ resp.r.body.snapshots = ReturnedByProvider

\* 120 symbols with a batch limit of 50 are fetched in 3 calls
C14_Witness ==
    /\ Fetched
    /\ resp.args.param = <<120, SECTOR_BATCH_SIZE>>
    /\ resp.args.data.failing = {}
    /\ resp.args.data.policy = "all"
    /\ Len(resp.r.body.requests) = 3
    /\ resp.r.body.snapshots = 1..120

\* ------------------------------------------------------------------------
\* C15
\* ------------------------------------------------------------------------
\* C15: when the upstream call of a batch fails (timeout, status other than
\* 200, malformed JSON) the remaining batches are still requested and
\* merged, the symbols of the failed batch are absent, and no exception
\* propagates.
C15_FailedBatchIsolated ==
    ( /\ resp.op = "fetch_current_snapshots"
      /\ resp.args.data.failing # {}
      /\ resp.args.name \in FailureKinds ) =>
      /\ resp.r.list = <<>>
      /\ LET n    == resp.args.param[1]
             reqs == resp.r.body.requests
         IN  /\ \A sym \in 1..n : \E k \in 1..Len(reqs) :
                   \E j \in 1..Len(reqs[k]) : reqs[k][j] = sym
             /\ \A k \in 1..Len(reqs) : \A j \in 1..Len(reqs[k]) :
                   /\ k \in resp.args.data.failing =>
                        reqs[k][j] \notin resp.r.body.snapshots
                   /\ k \notin resp.args.data.failing
                        /\ resp.args.data.policy # "odd" =>
                        reqs[k][j] \in resp.r.body.snapshots

\* the second of three batches times out; the first and third are merged
C15_Witness ==
    /\ Fetched
    /\ resp.args.param = <<5, 2>>
    /\ resp.args.data.failing = {2}
    /\ resp.args.name = "timeout"
    /\ resp.args.data.policy = "all"
    /\ Len(resp.r.body.requests) = 3
    /\ resp.r.body.snapshots = {1, 2, 5}

\* ------------------------------------------------------------------------
\* C17
\* ------------------------------------------------------------------------
\* the symbols of a snapshot answer that are counted: not SPY, and with a
\* positive current price
Priced(snapshots) ==
    { s \in (DOMAIN snapshots) \ {"SPY"} :
        \/ snapshots[s].p > 0
        \/ snapshots[s].p = 0 /\ snapshots[s].c > 0
        \/ snapshots[s].p = 0 /\ snapshots[s].c = 0 /\ snapshots[s].minc > 0 }

\* the daily percent change of a priced symbol is at least k (k > 0) or at
\* most k (k < 0): the provider's figure, or the change from the previous
\* close when the provider gives none
DailyChangeBeyond(snap, k) ==
    LET price == IF snap.p # 0 THEN snap.p ELSE IF snap.c # 0 THEN snap.c ELSE snap.minc
        beyond(num, den) == IF k > 0 THEN num >= k * den ELSE num <= k * den
    IN  IF snap.chg # 0 THEN beyond(snap.chg, 1)
        ELSE IF snap.prev > 0 THEN beyond(100 * (price - snap.prev), snap.prev)
        ELSE FALSE

Up4(snapshots) == { s \in Priced(snapshots) : DailyChangeBeyond(snapshots[s], 4) }
Down4(snapshots) == { s \in Priced(snapshots) : DailyChangeBeyond(snapshots[s], -4) }

\* C17: each symbol other than SPY with a positive current price is counted
\* in up4PlusToday exactly when its daily percent change is >= 4, in
\* down4PlusToday exactly when it is <= -4, and never in both.
C17_DailyMovers ==
    resp.op = "calculate_breadth_indicators" =>
      LET snapshots == resp.args.data.snapshots
      IN  /\ resp.r.body.primary.up4PlusToday = Cardinality(Up4(snapshots))
          /\ resp.r.body.primary.down4PlusToday = Cardinality(Down4(snapshots))
          /\ Up4(snapshots) \cap Down4(snapshots) = {}

\* AAA at +5%, BBB at -6% and CCC at +1% give one up and one down
C17_Witness ==
    /\ resp.op = "calculate_breadth_indicators"
    /\ resp.args.data.snapshots["AAA"] = Snap(105, 0, 0, 100, 5)
    /\ resp.args.data.snapshots["BBB"] = Snap(94, 0, 0, 100, -6)
    /\ resp.args.data.snapshots["CCC"] = Snap(101, 0, 0, 100, 1)
    /\ resp.r.body.primary.up4PlusToday = 1
    /\ resp.r.body.primary.down4PlusToday = 1

\* a symbol at exactly +4% is counted up, one at exactly -4% down
C17_Thresholds ==
    /\ resp.op = "calculate_breadth_indicators"
    /\ resp.args.data.snapshots["AAA"] = Snap(104, 0, 0, 100, 0)
    /\ resp.args.data.snapshots["BBB"] = Snap(0, 96, 0, 100, 0)
    /\ resp.args.data.snapshots["CCC"] = Snap(0, 0, 0, 100, 5)
    /\ resp.r.body.primary.up4PlusToday = 1
    /\ resp.r.body.primary.down4PlusToday = 1

\* ------------------------------------------------------------------------
\* C19
\* ------------------------------------------------------------------------
\* the symbols that qualify for T2108: in the universe, with a snapshot, a
\* positive price and a close on each of the 40 dates
Qualifying ==
    { s \in UniverseSet \cap DOMAIN resp.args.data.snapshots :
        /\ resp.args.data.snapshots[s].p > 0
        /\ resp.args.data.days[s] = 40 }

\* those of them priced above their 40-day average
AboveAverage == { s \in Qualifying : resp.args.data.snapshots[s].p > resp.args.n }

\* C19: calculate_rolling_ratios returns ratio5Day null unless there are at
\* least 5 daily counts and ratio10Day null unless there are at least 10;
\* calculate_t2108 counts a symbol only when it has a full 40 closes, and
\* returns null when no symbol qualifies.
C19_FullWindows ==
    /\ resp.op = "calculate_rolling_ratios" =>
         /\ Cardinality(Counted(resp.args.param)) < 5 => resp.r.list[1] = None
         /\ Cardinality(Counted(resp.args.param)) < 10 => resp.r.list[2] = None
    /\ resp.op = "calculate_t2108" =>
         LET t2108 == resp.r.list[1]
             total == Cardinality(Qualifying)
             e     == 1000 * Cardinality(AboveAverage) - t2108[1] * total
         IN  IF total = 0 THEN t2108 = None
             ELSE /\ t2108 # None
                  /\ 2 * (IF e < 0 THEN -e ELSE e) <= total

\* four counted days, each with up movers: no 5-day ratio
C19_Witness ==
    /\ resp.op = "calculate_rolling_ratios"
    /\ resp.args.name = "rally"
    /\ Cardinality(Counted(resp.args.param)) = 4
    /\ resp.r.list = <<None, None>>

\* one symbol has 39 closes below its price and is left out: T2108 is 0.0
\* from the one symbol that has 40 closes above its price
C19_ShortHistoryLeftOut ==
    /\ resp.op = "calculate_t2108"
    /\ DOMAIN resp.args.data.snapshots = UniverseSet
    /\ \A s \in UniverseSet : resp.args.data.snapshots[s].p = 100
    /\ resp.args.data.days = [s \in UniverseSet |->
                                IF s = "AAA" THEN 40 ELSE IF s = "BBB" THEN 39 ELSE 0]
    /\ resp.args.n = 110
    /\ resp.r.list = <<Some(0)>>

\* ------------------------------------------------------------------------
\* C20
\* ------------------------------------------------------------------------
\* the patterns that match the page of the call
Matching == { i \in 1..4 : resp.args.data.matches[i] # None }

\* the first of them in the order of the source
FirstMatching == CHOOSE i \in Matching : \A j \in Matching : i <= j

\* C20: fetch_finviz_count tries the four patterns in a fixed order and
\* returns the count of the first that matches; when none matches it returns
\* 0, silently when the page says there are no results and with a logged
\* warning otherwise; on a fetch error it returns 0 without raising.
C20_FirstPatternWins ==
    resp.op = "fetch_finviz_count" =>
      /\ resp.r.list = <<>>
      /\ IF ~resp.args.data.fetched
         THEN resp.r.body.count = 0
         ELSE IF Matching # {}
         THEN resp.r.body = [count |-> resp.args.data.matches[FirstMatching][1],
                             log |-> ""]
         ELSE /\ resp.r.body.count = 0
              /\ resp.r.body.log = IF resp.args.data.no_results THEN "" ELSE "warning"

\* patterns 2 and 4 match with different counts: the count of pattern 2 is
\* returned
C20_Witness ==
    /\ resp.op = "fetch_finviz_count"
    /\ resp.args.data.fetched
    /\ resp.args.data.matches = <<None, Some(7), None, Some(9)>>
    /\ resp.r.body.count = 7

\* a page that matches nothing and does not say so: 0 with a warning
C20_Unparsed ==
    /\ resp.op = "fetch_finviz_count"
    /\ resp.args.data.fetched
    /\ Matching = {}
    /\ ~resp.args.data.no_results
    /\ resp.r.body = [count |-> 0, log |-> "warning"]

\* ------------------------------------------------------------------------
\* C16
\* ------------------------------------------------------------------------
\* C16 (as stated): without the market-data API key every request to the
\* breadth and sector-rotation endpoints is answered with the configuration
\* error (HTTP 500) by a check made before any cache read or upstream call.
C16_KeyCheckedFirst ==
    ( resp.op \in {"breadth", "sector-rotation"} /\ ~apiKey ) =>
      /\ resp.r.status = 500
      /\ resp.r.body = [error |-> "Polygon API key not configured"]
      /\ ~resp.cacheUsed
      /\ ~resp.fetched

\* the breadth endpoint does check the key first
C16_BreadthChecksFirst ==
    /\ resp.op = "breadth"
    /\ ~apiKey
    /\ resp.r = Http(500, [error |-> "Polygon API key not configured"])
    /\ ~resp.fetched

\* sector-rotation without the key: answered 500, after the cache was read
C16_SectorReadsCacheFirst ==
    /\ resp.op = "sector-rotation"
    /\ ~apiKey
    /\ ~resp.args.flag
    /\ resp.r.status = 500
    /\ resp.cacheUsed

\* ------------------------------------------------------------------------
\* C18
\* ------------------------------------------------------------------------
\* the counts of a breadth snapshot
SnapshotCounts(body) ==
    { body.primary.up4PlusToday, body.primary.down4PlusToday,
      body.primary.up25PlusQuarter, body.primary.down25PlusQuarter,
      body.secondary.up25PlusMonth, body.secondary.down25PlusMonth,
      body.secondary.up50PlusMonth, body.secondary.down50PlusMonth,
      body.secondary.up13Plus34Days, body.secondary.down13Plus34Days }

\* C18 (as stated): every count in a breadth snapshot produced by the
\* breadth endpoint is a non-negative integer no greater than universeCount,
\* for any upstream response.
C18_CountsWithinUniverse ==
    ( resp.op = "breadth" /\ resp.r.status = 200 ) =>
      \A c \in SnapshotCounts(resp.r.body) : c \in 0..resp.r.body.universeCount

\* the provider names a symbol that was not asked for: four symbols are
\* counted up in a universe of three
C18_ForeignSymbolCounted ==
    /\ resp.op = "breadth"
    /\ resp.args.name = "foreign"
    /\ resp.r.status = 200
    /\ resp.r.body.universeCount = 3
    /\ resp.r.body.primary.up4PlusToday = 4

\* with the symbols asked for only, the counts stay within the universe
C18_NormalCase ==
    /\ resp.op = "breadth"
    /\ resp.args.name = "normal"
    /\ resp.r.status = 200
    /\ resp.r.body.primary.up4PlusToday = 1
    /\ resp.r.body.primary.down4PlusToday = 1
    /\ resp.r.body.t2108 = Some(1000)

\* ------------------------------------------------------------------------
\* C21
\* ------------------------------------------------------------------------
\* the last request was answered by an aggregator that computed its result
\* and wrote it to the cache
WroteAggregate(r) ==
    /\ r.op \in {"breadth-daily", "sector-rotation"}
    /\ r.fetched
    /\ r.ttl > 0

\* is_market_open(today) at the instant the request r was made
MarketOpenAt(r) == is_trading_day[StrftimeAt[r.at]] = Ret(TRUE)

\* a write on a day the market is closed is followed, as the next answered
\* request of the same endpoint, by a write on a day the market is open
ClosedThenOpen ==
    /\ WroteAggregate(resp) /\ ~MarketOpenAt(resp)
    /\ WroteAggregate(resp') /\ MarketOpenAt(resp')
    /\ resp'.op = resp.op

\* C21 as stated: the time to live with which an aggregator result is
\* written when the market is open is shorter than the one with which it is
\* written when the market is closed
C21_AsStated == [][ClosedThenOpen => resp'.ttl < resp.ttl]_vars

\* C21 as amended: an aggregator writes its result with the same time to
\* live whether the market is open or closed, one hour for breadth-daily and
\* five minutes for sector-rotation, and the entry written expires that long
\* after the request
C21_SameTtl ==
    [][ /\ ClosedThenOpen => resp'.ttl = resp.ttl
        /\ WroteAggregate(resp') /\ resp' # resp =>
             /\ resp'.ttl = IF resp'.op = "breadth-daily" THEN CACHE_TTL_DAILY
                            ELSE CACHE_TTL_SECTOR
             /\ \E k \in CacheKeys :
                  cache'[k] # None /\ cache'[k].exp = NowAt(resp'.at) + resp'.ttl
      ]_vars

\* breadth-daily wrote its result on a trading day after it had written one,
\* and recorded it in the history, on Christmas Day
C21_Witness ==
    /\ WroteAggregate(resp) /\ MarketOpenAt(resp)
    /\ resp.op = "breadth-daily"
    /\ \E e \in histIdx["breadth:daily"] : e[1] = <<2025, 12, 25>>
    /\ cache[CACHE_KEY] # None /\ cache[CACHE_KEY].exp = now + CACHE_TTL_DAILY

\* ------------------------------------------------------------------------
\* C23
\* ------------------------------------------------------------------------
\* C23: for every well-formed date of any year, is_market_open and
\* get_closure_reason return a value without raising, the years in which
\* January 1 is a Saturday or Easter is on April 1 or 2 included.
C23_NeverRaises ==
    (resp.op \in {"is_market_open", "get_closure_reason"}
       /\ WellFormed(resp.args.param))
      => resp.r # Raises("ValueError")

\* New Year's Day 2028 is a Saturday: the holiday set of 2028 cannot be built
\* and is_market_open raises on a Monday of that year
C23_SaturdayNewYear ==
    /\ Weekday(<<2028, 1, 1>>) = 5
    /\ resp.op = "is_market_open"
    /\ resp.args.param = <<2028, 3, 6>>
    /\ resp.r = Raises("ValueError")

\* Easter 2029 is April 1: get_closure_reason raises on a Tuesday of 2029
C23_EasterOnAprilFirst ==
    /\ _good_friday(2029) = ValueError
    /\ resp.op = "get_closure_reason"
    /\ resp.args.param = <<2029, 5, 8>>
    /\ resp.r = Raises("ValueError")

\* ------------------------------------------------------------------------
\* C29
\* ------------------------------------------------------------------------
\* the integer the days parameter of the last request stands for
DaysAsked ==
    IF resp.args.param = None THEN HISTORY_DAYS ELSE resp.args.param[1]

\* C29: for every integer days parameter, the breadth-history endpoint
\* returns at most min(days, 30) entries in each history list of its
\* response.
C29_AtMostDays ==
    (resp.op = "breadth-history" /\ resp.args.param # NotANumber
       /\ resp.r.status = 200)
      => /\ Len(resp.r.body.daily) <= Min(DaysAsked, 30)
         /\ Len(resp.r.body.realtime) <= Min(DaysAsked, 30)

\* days=0 answered with an entry of the daily history
C29_ZeroDaysReturnsAll ==
    /\ resp.op = "breadth-history"
    /\ resp.args.param = Some(0)
    /\ resp.r.status = 200
    /\ resp.r.body.days = 0
    /\ Len(resp.r.body.daily) = 1

\* a positive days parameter is respected
C29_PositiveDays ==
    /\ resp.op = "breadth-history"
    /\ resp.args.param = Some(MaxDays)
    /\ resp.r.status = 200
    /\ Len(resp.r.body.daily) = 1

C25_OlderDateDropped ==
    LET days == NhnlDays(cache) IN
    /\ resp.op = "fix-sector-nhnl" /\ resp.fetched /\ resp.r.status = 200
    /\ ~resp.degraded
    /\ resp.args.param = <<2025, 12, 24>>
    /\ Len(days) = HISTORY_KEEP
    /\ \A i \in 1..HISTORY_KEEP : days[i].date # <<2025, 12, 24>>

\* ------------------------------------------------------------------------
\* C22
\* ------------------------------------------------------------------------
\* the value stored under breadth:daily:history:{today}
TodaysSnapshot == histVal["breadth:daily"][StrftimeAt[clock]]

\* C22: under any interleaving of concurrent breadth-daily requests on the
\* same day, the daily snapshot of that day is saved only once: after the
\* first save_daily_snapshot for today has completed, no breadth-daily
\* request overwrites the value stored under breadth:daily:history:{today}.
C22_SavedOnce ==
    [][(scope = "breadth-daily" /\ TodaysSnapshot # None)
         => TodaysSnapshot' = TodaysSnapshot]_vars

\* two requests have both been told to save, with different responses
C22_BothToldToSave ==
    /\ scope = "breadth-daily"
    /\ pc[1] = "save" /\ pc[2] = "save"
    /\ loc[1].data # loc[2].data

\* a request that asks after the snapshot was saved is told not to save
C22_LaterRequestSkips ==
    /\ scope = "breadth-daily"
    /\ TodaysSnapshot # None
    /\ pc[2] = "done" /\ ~loc[2].flag
    /\ loc[2].data # NoData /\ Dumps(loc[2].data) # TodaysSnapshot

\* ------------------------------------------------------------------------
\* C24
\* ------------------------------------------------------------------------
\* the date is a member of {series}:history:dates
Indexed(series, d) == \E e \in histIdx[series] : e[1] = d

\* C24: under any sequence or interleaving of save_daily_snapshot (its
\* pruning step included) and fix-breadth?action=delete on one series, a
\* history value key {series}:history:{d} exists if and only if d is a
\* member of {series}:history:dates.
C24_IndexMatchesValues ==
    \A series \in Series, d \in AllDates :
       histVal[series][d] # None <=> Indexed(series, d)

\* a save whose calls all succeeded left a value whose date its own pruning
\* step removed from the index
C24_OrphanedValue ==
    /\ resp.op = "save_daily_snapshot" /\ resp.r = Bool(TRUE) /\ ~resp.degraded
    /\ \E series \in Series :
         /\ histVal[series][<<2025, 11, 25>>] # None
         /\ ~Indexed(series, <<2025, 11, 25>>)

\* a date in the index without a value
C24_IndexedWithoutValue ==
    \E series \in Series, d \in AllDates :
       Indexed(series, d) /\ histVal[series][d] = None

\* a save of a recent date and a delete keep the two in step
C24_RecentDateInStep ==
    /\ resp.op = "save_daily_snapshot" /\ resp.r = Bool(TRUE) /\ ~resp.degraded
    /\ \E series \in Series :
         /\ histVal[series][<<2025, 12, 25>>] # None
         /\ Indexed(series, <<2025, 12, 25>>)
    /\ C24_IndexMatchesValues

\* ------------------------------------------------------------------------
\* C26
\* ------------------------------------------------------------------------
\* the stored NH/NL history has an entry of the date
InHistory(d) ==
    \E i \in 1..Len(NhnlDays(cache)) : NhnlDays(cache)[i].date = d

\* request p has answered the recalculation of its date with success
Recalculated(p) ==
    /\ scope = "fix-sector-nhnl"
    /\ pc[p] = "done"
    /\ loc[p].r.status = 200

\* C26: two concurrent fix-sector-nhnl requests for distinct trading dates
\* D1 and D2, with the history below its 20-entry cap, leave entries for
\* both D1 and D2 in sector-rotation:nh-nl-history in every interleaving of
\* their read-modify-write steps.
C26_BothDatesKept ==
    (Recalculated(1) /\ Recalculated(2) /\ loc[1].date # loc[2].date)
      => InHistory(loc[1].date[1]) /\ InHistory(loc[2].date[1])

\* both requests read the empty history before either wrote
C26_BothReadEmpty ==
    /\ scope = "fix-sector-nhnl"
    /\ pc[1] = "set_history" /\ pc[2] = "set_history"
    /\ loc[1].date # loc[2].date
    /\ loc[1].data.history.days = <<>> /\ loc[2].data.history.days = <<>>

\* requests that do not overlap leave both dates
C26_OneAfterTheOther ==
    /\ Recalculated(1) /\ Recalculated(2) /\ loc[1].date # loc[2].date
    /\ Len(loc[2].data.history.days) = 1
    /\ InHistory(loc[1].date[1]) /\ InHistory(loc[2].date[1])

\* ------------------------------------------------------------------------
\* C27
\* ------------------------------------------------------------------------
\* the dates of the summaries in the body of a GET response
DatesIn(body) == { body.summaries[i].summary_date : i \in 1..Len(body.summaries) }

\* request p is a GET that has been answered
GetAnswered(p) ==
    /\ scope = "market-summary"
    /\ pc[p] = "done"
    /\ loc[p].op = "GET"

\* C27: once a market-summary POST has saved a summary and invalidated the
\* cached summaries, every later GET returns data that includes that
\* summary, under any interleaving of the POST with concurrent GET requests
\* that read the database and then populate the cache.
C27_LaterGetSeesSummary ==
    \A p \in Procs :
       GetAnswered(p) => loc[p].data.began \subseteq DatesIn(loc[p].r.body)

\* a GET that read the database before the POST saved is about to write
\* what it read to the cache the POST has already invalidated
C27_StaleWritePending ==
    /\ scope = "market-summary"
    /\ pc[1] = "set_cached" /\ loc[1].r.body.summaries = <<>>
    /\ pc[2] \in {"cleanup", "done"} /\ loc[2].op = "POST"
    /\ <<2025, 12, 24>> \in Published
    /\ cache[CACHE_KEY_SUMMARIES] = None

\* a GET that began after the POST had completed, and found no cached
\* value, returned the summary
C27_FreshGet ==
    /\ GetAnswered(1)
    /\ loc[1].data.began = { <<2025, 12, 24>> }
    /\ DatesIn(loc[1].r.body) = { <<2025, 12, 24>> }

\* ------------------------------------------------------------------------
\* C28
\* ------------------------------------------------------------------------
\* a summary is stored for the date
Stored(d) == \E r \in db.summaries : CivilFromDays(r.summary_date) = d

\* C28: a market-summary POST without force=true is idempotent per date: if
\* a summary is already stored for the date the request targets, the
\* request generates no new summary and leaves the stored summary of that
\* date unchanged.
C28_IdempotentPerDate ==
    [][\A p \in Procs :
         (/\ scope = "market-summary"
          /\ pc[p] = "check_existing" /\ ~loc[p].flag
          /\ Stored(loc[p].date[1]))
           => /\ pc'[p] # "generate"
              /\ db'.summaries = db.summaries]_vars

\* a request without force is about to replace the stored summary of its
\* date by another text
C28_AboutToReplace ==
    /\ scope = "market-summary"
    /\ \E p \in Procs :
         /\ pc[p] = "save" /\ ~loc[p].flag
         /\ pc[3 - p] = "idle"
         /\ \E r \in db.summaries :
              /\ CivilFromDays(r.summary_date) = loc[p].date[1]
              /\ r.summary_text # loc[p].data.text

\* a request for the newest stored date is answered without generating
C28_NewestDateSkipped ==
    /\ scope = "market-summary"
    /\ \E p \in Procs :
         /\ pc[p] = "done" /\ loc[p].op = "POST" /\ ~loc[p].flag
         /\ loc[p].r.status = 200
         /\ "message" \in DOMAIN loc[p].r.body
         /\ Stored(loc[p].date[1])

\* ------------------------------------------------------------------------
\* C30
\* ------------------------------------------------------------------------
\* C30: for a user who is not an admin, the number of usage records of one
\* prompt type and month never exceeds the monthly limit, under any
\* interleaving of concurrent run-prompt requests that each check the usage
\* count and then record usage.
C30_WithinMonthlyLimit ==
    scope = "run-prompt" => get_usage_count(db.usage) <= MONTHLY_LIMIT

\* two requests have both passed the check on the last free prompt
C30_BothPassedCheck ==
    /\ scope = "run-prompt"
    /\ pc[1] = "record" /\ pc[2] = "record"
    /\ loc[1].n = MONTHLY_LIMIT - 1 /\ loc[2].n = MONTHLY_LIMIT - 1

\* a request that checks at the limit is refused
C30_RefusedAtLimit ==
    /\ scope = "run-prompt"
    /\ get_usage_count(db.usage) = MONTHLY_LIMIT
    /\ pc[1] = "done" /\ loc[1].r.status = 429

====
